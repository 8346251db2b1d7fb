SPECIFICATION Spec
CONSTANTS
    Basic = {"Int32", "UInt32", "ObjectPath"}
    Key = {"String", "Int32", "ObjectPath"}
    Atom = {0, 1}
    MaxValues = 2
    MaxNodes = 5
    Rare = {"UInt32", "ObjectPath"}
    Fits <- NotTooLarge
    BuildSignature <- SignatureOf
    Equal <- Same
    WellTyped <- Typing
    Held <- Holds
    HasMap <- Mapped
INVARIANTS
    Typed
    EqualityIsExact
    ArrivesAsSent
PROPERTIES
    NothingInvented
CHECK_DEADLOCK FALSE
