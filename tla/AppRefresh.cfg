CONSTANTS
    AppStates <- MCAppStates
    PowerOnWait = 1
    MaxEvents = 1
SPECIFICATION FairSpec
PROPERTIES RefreshIsPure
