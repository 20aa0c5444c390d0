SPECIFICATION Spec
CONSTANTS
    ada = ada  bob = bob  guest = guest
    anthropic = anthropic  openai = openai
    a1 = a1  b1 = b1
    Users <- MCUsers
    SignedIn <- MCSignedIn
    Providers <- MCProviders
    DefaultProvider = anthropic
    Keys <- MCKeys
    KeyOwner <- MCKeyOwner
    KeyProvider <- MCKeyProvider
    Masters = {m1, m2}
    None = None
SYMMETRY Symmetry
CONSTANT Slots = {p1, p2}
INVARIANTS TypeOK RecordsAreVetted KeysStayWithTheirUser RotationDegrades BlameIsDeserved
