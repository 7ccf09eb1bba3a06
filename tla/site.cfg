SPECIFICATION Spec
CONSTANTS
    None = None
    Accounts = {ann, bob}
    MaxAsked = 2
    Names = {ab, cat, dog}
    Short = {ab}
    MaxSent = 4
    Amounts = {1, 2}
    Balances = {2, 3}
    MaxOps = 3
    ListOf <- MCListOf
    Answers <- MCAnswers
    Filters <- MCFilters
    Words = {"ab", "c"}
    Picks = {"a", "b"}
    Texts = {"t"}
    PageSize = 2
    All = All
    MaxEvents = 6
    Labels = {"description", "link"}
    Drafts = {"x", "blank", "empty"}
    Blank = "blank"
    Empty = "empty"
    Modes = {"conservative", "medium"}
    Counts = {49, 50}
    Enough = 50
    Exchanges = {"weex", "bybit"}
    MaxPresses = 8
INVARIANTS SiteSound ThanksMeansStored ToldWhatMoved RowsKeepTheirOwn SettingsTrue
CHECK_DEADLOCK FALSE
