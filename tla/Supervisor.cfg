SPECIFICATION FairSpec
CONSTANT MaxBoots = 3
INVARIANTS TypeOK OneStack NoFalseAlarm AlarmSounds
PROPERTIES HotIsNoticed NetComesUp
