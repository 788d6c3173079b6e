SPECIFICATION StateSpec
CONSTANTS
 a = a
 b = b
 c = c
 p = p
 q = q
 null = null
 Name = {a, b}
 Sender = {x, y}
 NoIdent = none
 Absent = absent
 FirstFile <- FirstFiles
 MaxUsers = 2
 MaxCrashes = 1
 MaxStores = 2
 MaxNick = 2
 TakenNicks = {0, 1}
 MaxLines = 3
 Person = {p, q}
 Offline = off
 Nickname = {a, b, c}
 MAX_TIMER = 2
 MaxDuration = 1
\* A minute has 2 seconds here and an hour 4, and an unsigned long holds 3 values.
 Minute = 2
 Hour = 4
 Word = 3
 Late = 1
 Partner = {a, b}
 Channel = {c}
 Texts <- Messages
 KnowledgeFile <- KnowledgeFiles
 CONV_TIMEOUT = 1
 MaxDelay = 1
 MaxAnswers = 1
 MaxConversations = 2
 Slots = 2
 Sleeps = {3, 11, 20, 31, 45}
 Token = {"CMD", "s", "x", "y", "z", "bot", "!c"}
 ServerLine <- ServerLines
 BUFLEN = 15
 INFO_MAXARG = 2
 Me = "bot"
 Commands = {"!c"}
INVARIANTS FileWhole LevelEarned KnowsName ReachesOwner GoneForgotten ElizaReads PrintsLists Recovers TailOfLine ConfigAsWritten
PROPERTIES NickRegained ImplementsTable
\* eliza.so and lisp.so may bring the process down, and that is the end of their part.
CHECK_DEADLOCK FALSE
