CONSTANTS
    plain = plain
    fire = fire
    other = other
    Prompts = {facebook}
    Pictures = {cover}
    MaxVersion = 2
    Names = {mine}
    MaxId = 2
    Contents = {c1}
    Texts = {plain, fire, other}
    Polished <- SmallPolished
    Requests = {r1, r2}
    NoRequest = NoRequest
    NoId = NoId
    NoRow = NoRow
    NoContent = NoContent
    NoText = NoText
    Latest = Latest
    MaxCalls = 5
    MaxFaults = 1
SPECIFICATION Spec
INVARIANTS CacheFits NumbersRunOn NoRepeat
SYMMETRY Symmetry
CHECK_DEADLOCK FALSE
