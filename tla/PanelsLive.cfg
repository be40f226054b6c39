\* The traffic loop and the monthly task with one operation and one failed call.
CONSTANTS
    None = None
    Keys = {k1}
    Servers = {s1}
    Inbounds = {1}
    Public = {1}
    Shared = FALSE
    Day = 2
    MaxTime = 3
    Replacements = 0
    Screens = {t1}
    Traffic = traffic
    Daily = daily
    Expired = expired
    Loops = {traffic,daily}
    Ops = {"month","ban","sweep","reward"}
    Once = {"month","ban","sweep","reward"}
    MaxOps = 1
    MaxSlips = 1
    MaxEvents = 2
SPECIFICATION FairSpec
PROPERTIES
    ActiveIsServed
    BannedIsOff
