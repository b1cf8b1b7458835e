SPECIFICATION Spec
CONSTANTS
    a = a
    b = b
    tick = tick
    Tasks = {a, b}
    Handlers = {tick}
    Keyboard = Keyboard
    Scenarios <- MCScenarios
    TableSize = 4
    LeftShift = 2
    Enter = 3
    RetSize = 4
    HexSize = 3
    NoOne = NoOne
INVARIANTS
    MessagesComplete
    KeysEchoed
    NumbersInBuffers
PROPERTY PrintsAll
