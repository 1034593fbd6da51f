SPECIFICATION Spec
CONSTANTS
    PublicKeySize = 32
    MaxEncryptedDataSize = 2
    Base58Sizes <- MCBase58Sizes
    CanonicalKeys <- MCKeys
    NewAddresses <- MCAddresses
    Memos <- MCMemos
    Substitutes <- MCSubstitutes
    MaxOps = 2
INVARIANTS AddressOK RoundTrip DamageFound CombineSymmetric
CHECK_DEADLOCK FALSE
