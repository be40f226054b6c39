\* Two administrators, three releases.  Version 21 begins the migrations,
\* 27 is followed by the one that chooses a mode, 38 by those that only
\* create; 42 is what the first release left.  A behaviour is about updates,
\* or about broadcasts and settings; restarts and crashes are in both.
SPECIFICATION Spec
CONSTANTS
    Admins = {a1, a2}
    Receivers = 2
    Releases <- MCReleases
    OldDatabases <- MCDatabases
    Versions = {21, 27, 38, 42}
    Duties = {{"updates"}, {"broadcasts", "settings"}}
INVARIANTS VersionIsTrue SchemaIsWhole NoDowngrade
PROPERTIES ChoicesStand StopHeeded
