SPECIFICATION MCSpec
CONSTANTS
    Users = {alice}
    NoUser = NoUser
    NoId = NoId
    NoChallenge = NoChallenge
    SessionIds = {1, 2, 3}
    Requests = {r1, r2}
    Challenges = {1}
    Patterns = {p1, p2, p3}
    NoPattern = NoPattern
    Goroutines = {r1, r2}
    MaxCachedRegexes = 1
    Matches <- InRule
    IconFeeds = {feed}
    Hashes = {h1, h2}
    IconIds = {1, 2, 3}
    IconWorkers = {r1, r2}
    NoIcon = NoIcon
    Clients = {r1, r2}
    Keys = {1, 2, 3}
    NoKey = NoKey
    Owners = {alice, bob}
    Names = {name}
    NoName = NoName
    Urls = {u1, u2}
    LabelFeeds = {u1}
    LabelIds = {1, 2, 3}
    NoLabel = NoLabel
    MaxTitle = 2
    Removers = {r1, r2}
    Editors = {editor}
    MaxLoad = 2
    Entries = {1, 2, 3}
    Syncers = {syncer}
    Taggers = {r1, r2}
    Sharers = {r1, r2}
    Codes = {1, 2, 3}
    NoCode = NoCode
    Date <- DateOf
    FeedOf <- FeedNumber
    Categories <- CategorySets
    HiddenFeeds = {1}
    PageSizes = {1, 2}
    Tabs = {1, 2}
    Scope <- ScopeOf
    HasMedia = {2}
    NoEntry = 9
    EntriesPerPage = 1
    Senders = {1, 2}
    NewEntries <- TwoEntries
    Settings <- SettingSets
    OwnTags = {mine}
    RawUrls = {"u", " u", "v", ""}
    Trimmed <- Trim
    Blank = ""
    Documents <- Podcasts
    Devices = {r1, r2}
    MaxRows = 3
    MaxProgression = 2
    Articles <- FeedArticles
    Dialects <- FeedDialects
    Sites <- FeedSites
    Written <- WriteFeed
    Channel <- FeedChannel
    MaxItems = 2
    DateTexts <- FeedDates
    Languages <- FeedLanguages
    MaxWords = 2
    bad = bad
    Callers = {1, 2}
    Credentials <- Identities
    CallsOf <- ApiCalls
    StartDbs <- Databases
    DisableLocalAuth = FALSE
    Lower <- LowerCase
    TitlesInOrder <- TitleOrder
    Refused <- RefusedValues
    Sanitized <- Cleaning
INVARIANTS
    QuietSavesAreKept
    ChallengesLogInOnce
    RegexesAreBounded
    QuietFeedsHaveTheirIcon
    RotatedKeysAreDead
    QuietNamesAreUnique
    QuietRemovalsKeepFeeds
    LoadedFeedsArrive
    QuietListingsAreComplete
    
    QuietWalksVisitAll
    QuietOpeningsKeepRead
    EveryServiceIsTried
    QuietBookmarksAreKept
    ProgressIsKept
    ItemsKeepTheirHash
    
    
    RowsAreFiledAtHome
CHECK_DEADLOCK FALSE
