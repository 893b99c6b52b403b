------------------------------- MODULE IniList -------------------------------
(***************************************************************************)
(* The list of an ini file (MyCodes.cpp): AnalysisIniFile reads the file   *)
(* line by line into a list with an empty node in front, GetIniInfo looks  *)
(* a key up, DelIniInfoList frees the list.  The caller calls them as      *)
(* main.cpp does: the list is freed before the next file is read.  Keys    *)
(* and values are copied as formats of snprintf: of a run of '%', every    *)
(* two become one, and one left over begins a conversion that has no       *)
(* argument.                                                               *)
(***************************************************************************)
EXTENDS Integers, Sequences

CONSTANTS Keys, ValueLens,   \* a value is told by its length
          Percents,          \* lengths of the run of '%' behind a key or value
          BufLens,           \* what a caller may give as ValueLen
          MaxLines           \* bound: lines of a file

KeyTexts == Keys \X Percents
Values   == ValueLens \X Percents
Length(value) == value[1] + value[2]

\* What snprintf may make of a text that is its format: anything in the set
\* any when there is a conversion.
Converts(text)     == text[2] % 2 = 1
Printed(text, any) == IF Converts(text) THEN any ELSE {<<text[1], text[2] \div 2>>}

\* A line: a pair, one without '=', one that is too long for words.
Plain   == <<<<"plain", 0>>, <<0, 0>>>>
TooLong == <<<<"too long", 0>>, <<0, 0>>>>
Line    == {Plain, TooLong} \cup (KeyTexts \X Values)
Files   == UNION {[1..n -> Line] : n \in 0..MaxLines}

NULL  == 0
Node  == 1..MaxLines + 1
Empty == <<<<"empty", 0>>, <<0, 0>>>>

\* What GetIniInfo gave: nothing yet, one of its two errors, or a value.
None    == <<"none", <<0, 0>>>>
NoFound == <<"NOFOUND", <<0, 0>>>>
TooBig  == <<"LEN", <<0, 0>>>>

VARIABLES
  file, line,     \* the lines of the file (ghost), and how many getline has read
  InfoHead, fake, \* the caller's list; the node AnalysisIniFile put last
  alive,          \* the nodes that are allocated
  next, pair,     \* Next, and Key with Value
  asked, answer,  \* the last GetIniInfo: key and ValueLen; what it gave
  down            \* a conversion has ended the program

Init ==
  /\ file = <<>> /\ line = 0 /\ InfoHead = NULL /\ fake = NULL /\ alive = {}
  /\ next = [n \in Node |-> NULL] /\ pair = [n \in Node |-> Empty]
  /\ asked = None /\ answer = None /\ down = FALSE

Reading == fake # NULL /\ ~down
Idle    == fake = NULL /\ ~down

New == CHOOSE n \in Node \ alive : \A m \in Node \ alive : n <= m

\* The head is there even when the file cannot be opened.
AnalysisIniFile ==
  /\ Idle /\ InfoHead = NULL
  /\ InfoHead' = New /\ alive' = alive \cup {New}
  /\ next' = [next EXCEPT ![New] = NULL] /\ pair' = [pair EXCEPT ![New] = Empty]
  /\ \/ file' \in Files /\ fake' = New
     \/ file' = <<>> /\ fake' = NULL
  /\ line' = 0 /\ answer' = None /\ UNCHANGED <<asked, down>>

\* The pairs that may be stored for a line; a value is cut to the room of its text.
Stored(l) == Printed(l[1], KeyTexts) \X Printed(l[2], {v \in Values : Length(v) <= Length(l[2])})

\* Faulty variant (version 1.3.1): the caller's head moves on with each node.
MutAppended(l) ==
  /\ alive' = alive \cup {New}
  /\ next' = [next EXCEPT ![fake] = New, ![New] = NULL]
  /\ \E stored \in Stored(l) : pair' = [pair EXCEPT ![New] = stored]
  /\ fake' = New /\ InfoHead' = New

Appended(l) ==
  /\ alive' = alive \cup {New}
  /\ next' = [next EXCEPT ![fake] = New, ![New] = NULL]
  /\ \E stored \in Stored(l) : pair' = [pair EXCEPT ![New] = stored]
  /\ fake' = New /\ UNCHANGED InfoHead

AtPair == Reading /\ line < Len(file) /\ file[line + 1] \notin {Plain, TooLong}

ReadPair ==
  /\ AtPair
  /\ Appended(file[line + 1]) /\ line' = line + 1
  /\ UNCHANGED <<file, asked, answer, down>>

\* A conversion reads an argument that is not there.
ReadCrashes ==
  /\ AtPair /\ \E i \in {1, 2} : Converts(file[line + 1][i])
  /\ down' = TRUE
  /\ UNCHANGED <<file, line, InfoHead, fake, alive, next, pair, asked, answer>>

ReadPlain ==
  /\ Reading /\ line < Len(file) /\ file[line + 1] = Plain
  /\ line' = line + 1
  /\ UNCHANGED <<file, InfoHead, fake, alive, next, pair, asked, answer, down>>

\* getline fails at the end, and at a line that is too long.
ReadEnds ==
  /\ Reading /\ \A i \in DOMAIN file : i = line + 1 => file[i] = TooLong
  /\ fake' = NULL
  /\ UNCHANGED <<file, line, InfoHead, alive, next, pair, asked, answer, down>>

\* The nodes from InfoHead on; NULL behind the last one.
Behind(node) == IF node = NULL THEN NULL ELSE next[node]
Walk ==
  LET w[i \in 1..MaxLines + 2] == IF i = 1 THEN InfoHead ELSE Behind(w[i - 1])
  IN  w
Listed == {Walk[i] : i \in DOMAIN Walk} \ {NULL}

\* The nodes with the key; the value of the first of some nodes.
Found(key) == {i \in DOMAIN Walk : Walk[i] # NULL /\ pair[Walk[i]][1] = key}
First(S)   == pair[Walk[CHOOSE i \in S : \A j \in S : i <= j]][2]

\* The first of the nodes decides, whether its value fits or not.
Answers(found, ValueLen) ==
  IF found = {} THEN {NoFound}
  ELSE IF ValueLen <= Length(First(found)) THEN {TooBig}
  ELSE {<<"value", v>> : v \in Printed(First(found), {v \in Values : Length(v) < ValueLen})}

\* Faulty variant: a node whose value does not fit is passed over.
MutGetIniInfo(key, ValueLen) ==
  /\ Idle /\ InfoHead # NULL
  /\ asked' = <<key, ValueLen>>
  /\ answer' \in Answers({i \in Found(key) : Length(pair[Walk[i]][2]) < ValueLen}, ValueLen)
  /\ UNCHANGED <<file, line, InfoHead, fake, alive, next, pair, down>>

GetIniInfo(key, ValueLen) ==
  /\ Idle /\ InfoHead # NULL
  /\ asked' = <<key, ValueLen>>
  /\ answer' \in Answers(Found(key), ValueLen)
  /\ UNCHANGED <<file, line, InfoHead, fake, alive, next, pair, down>>

\* What is stored is a format once more.
GetCrashes(key, ValueLen) ==
  /\ Idle /\ InfoHead # NULL /\ Found(key) # {}
  /\ Length(First(Found(key))) < ValueLen /\ Converts(First(Found(key)))
  /\ down' = TRUE
  /\ UNCHANGED <<file, line, InfoHead, fake, alive, next, pair, asked, answer>>

DelIniInfoList ==
  /\ Idle /\ InfoHead # NULL
  /\ alive' = alive \ Listed /\ InfoHead' = NULL
  /\ next' = [n \in Node |-> NULL] /\ pair' = [n \in Node |-> Empty]
  /\ file' = <<>> /\ line' = 0 /\ asked' = None /\ answer' = None
  /\ UNCHANGED <<fake, down>>

Next ==
  \/ AnalysisIniFile
  \/ ReadPair \/ ReadCrashes \/ ReadPlain \/ ReadEnds
  \/ \E key \in KeyTexts, n \in BufLens : GetIniInfo(key, n) \/ GetCrashes(key, n)
  \/ DelIniInfoList

-----------------------------------------------------------------------------
(* Properties *)

\* The lines in front of the first that is too long.
ReadLines == {i \in DOMAIN file : \A j \in 1..i : file[j] # TooLong}

\* GetIniInfo answers with the value of the first line of the file that has
\* the key, lines without '=' passed over, and with an error when that value
\* does not fit, whatever lines follow (MyCodes.cpp 152-200).  A line whose key
\* holds a conversion may take the key's place; nothing is said of what a
\* value with a '%' comes back as.
GetAnswersFile ==
  answer # None =>
    LET has   == {i \in ReadLines : asked[1] \in Printed(file[i][1], {})}
        mayBe == {i \in ReadLines : asked[1] \in Printed(file[i][1], KeyTexts)}
    IN  \/ has = {} /\ answer = NoFound
        \/ \E i \in mayBe :
             /\ \A j \in has : i <= j
             /\ file[i][2][2] = 0 => answer = IF file[i][2][1] < asked[2] THEN <<"value", file[i][2]>> ELSE TooBig

\* Every node that was allocated can be reached from the head the caller gets,
\* so that freeing the list frees them all, and none twice (203-211).
AllListed == alive = Listed
=============================================================================
