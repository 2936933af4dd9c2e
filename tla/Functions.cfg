CONSTANTS
    GroupId = {g1, g2, g3, g4}
    NoGroup = NoGroup
    Word = {"x", "y"}
    MaxAge = 2
    Nowhere = Nowhere
    User = user
    Folder = {folder}
    NoServer = NoServer
SPECIFICATION FunctionsSpec
INVARIANTS
    HasCycleCorrect
    WouldCreateCycleCorrect
    DescendantsCorrect
    SavedFilesLoad
    FormKeepsTheItem
    ExportKeepsEverySnippet
    TemplateIsFaithful
    ChainsKeepDanger
    StringsSurvive
    QuickPickKeepsTheRank
    DropMovesOneGroup
    TreeShowsEverything
PROPERTY Terminates
CHECK_DEADLOCK FALSE
