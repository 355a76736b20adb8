CONSTANTS
    Sources = {s1, s2, s3}
    Workers = {w1, w2}
    Nobody = Nobody
    Values = {a, b, c}
    Replacements = {r1}
    Agreements = {c1, c2, c3}
    Names = {ana, bia}
    Rows <- SixRows
    RowsOfFacts <- ThreeFacts
    Words = {"prazo", "www"}
    Recognised = {"www"}
    HasWord <- RowWords
    Queries <- AnyQuery
    Limit = 2
    Claims = {f1, f2}
    Corrections = {c}
    MatchingClaims = {f1, c}
    Most = 1
    Messages <- FourMessages
    DayOf <- TwoDays
    ReplyTo <- OneReply
    Days <- FiveDays
    Capacity = 2
    Lookback = 2
    MaxOutage = 1
SPECIFICATION Spec
INVARIANTS TypeOK   PagesAreOneList  EveryDayKept
PROPERTIES NotOverruled 
CHECK_DEADLOCK FALSE
SYMMETRY Symmetry
