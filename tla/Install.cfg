SPECIFICATION Spec
CONSTANTS
    Servers = {other}
    Sections = {s1, s2}
    Chapters = {chapter}
    Overlays = {units}
    Agy = Agy
    Ours = Ours
    Template = Template
    Config = Config
    Absent = Absent
    Broken = Broken
    MaxEdits = 4
    MaxKills = 2
INVARIANTS TypeOK OneSection Registered Unregistered
PROPERTY OutsideKept
