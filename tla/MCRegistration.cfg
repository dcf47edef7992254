SPECIFICATION RegistrationSpec
CONSTANTS
    x = x
    xSpaced = xSpaced
    y = y
    Empty = Empty
    Null = Null
    r1 = r1
    r2 = r2
    l1 = l1
    Texts <- MCTexts
    TrimSpace <- MCTrimSpace
    Registers <- TwoRegisters
    Logins <- OneLogin
SYMMETRY MCSymmetry
INVARIANTS
    RegistrationTypeOK
    OneUserPerLogin
    UsersHaveAccounts
    TokensNameUsers
    RegisteredCanLogin
    LoginNeedsPassword
