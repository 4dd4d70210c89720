---------------------------- MODULE FilesProofs ----------------------------
(***************************************************************************)
(* Proofs about FileLogger and FileRoller, which MCServices composes, for  *)
(* all values of the constants: the files are in the order of their        *)
(* records, only the oldest records are lost, RollFiles() reports what it  *)
(* could not move, and both classes implement RotatedLog.                  *)
(***************************************************************************)
EXTENDS ServicesProofs

-----------------------------------------------------------------------------
(* Sequences of numbers, and the numbers in them.                          *)

Rising(s) == \A i, j \in 1 .. Len(s) : i < j => s[i] < s[j]
Older(S, T) == \A x \in S : \A y \in T : x < y

LEMMA SetOf ==
  ASSUME NEW s \in Seq(Nat)
  PROVE  /\ Len(s) \in Nat /\ DOMAIN s = 1 .. Len(s)
         /\ \A i \in 1 .. Len(s) : s[i] \in Nat /\ s[i] \in ToSet(s)
         /\ \A x \in ToSet(s) : x \in Nat /\ \E i \in 1 .. Len(s) : x = s[i]
         /\ Logger!ToSet(s) = ToSet(s)
<1>1. Len(s) \in Nat /\ DOMAIN s = 1 .. Len(s) /\ \A i \in 1 .. Len(s) : s[i] \in Nat
  BY LenProperties, ElementOfSeq
<1> QED BY <1>1 DEF ToSet, Logger!ToSet

LEMMA SetOfEmpty == <<>> \in Seq(Nat) /\ ToSet(<<>>) = {} /\ Rising(<<>>)
<1> DEFINE e == <<>>
<1>1. e \in Seq(Nat) /\ Len(e) = 0 /\ 1 .. 0 = {}
  BY EmptySeq
<1> HIDE DEF e
<1>2. ToSet(e) = {}
  BY <1>1, SetOf
<1> QED BY <1>1, <1>2 DEF Rising, e

LEMMA EmptyIfNone ==
  ASSUME NEW s \in Seq(Nat), ToSet(s) = {}
  PROVE  s = <<>>
<1>1. Len(s) = 0
  <2>1. ASSUME Len(s) # 0 PROVE FALSE
    <3>1. 1 \in 1 .. Len(s)
      BY <2>1, SetOf
    <3> QED BY <3>1, SetOf
  <2> QED BY <2>1
<1> QED BY <1>1, EmptySeq

LEMMA SetOfConcat ==
  ASSUME NEW s \in Seq(Nat), NEW t \in Seq(Nat)
  PROVE  s \o t \in Seq(Nat) /\ ToSet(s \o t) = ToSet(s) \cup ToSet(t)
<1> DEFINE u == s \o t
           m == Len(s)
           n == Len(t)
<1>1. m \in Nat /\ n \in Nat
  BY SetOf
<1>2. /\ u \in Seq(Nat) /\ Len(u) = m + n
      /\ \A i \in 1 .. m + n : u[i] = IF i <= m THEN s[i] ELSE t[i - m]
  BY ConcatProperties
<1> HIDE DEF u, m, n
<1>3. ASSUME NEW x \in ToSet(u) PROVE x \in ToSet(s) \cup ToSet(t)
  <2>1. PICK i \in 1 .. m + n : x = u[i]
    BY <1>2, SetOf
  <2>2. CASE i <= m
    <3>1. i \in 1 .. m
      BY <1>1, <2>2
    <3> QED BY <1>2, <2>1, <2>2, <3>1, SetOf DEF m
  <2>3. CASE ~(i <= m)
    <3>1. i - m \in 1 .. n
      BY <1>1, <2>3
    <3> QED BY <1>2, <2>1, <2>3, <3>1, SetOf DEF n
  <2> QED BY <2>2, <2>3
<1>4. ASSUME NEW x \in ToSet(s) PROVE x \in ToSet(u)
  <2>1. PICK i \in 1 .. m : x = s[i]
    BY SetOf DEF m
  <2>2. i \in 1 .. m + n /\ i <= m
    BY <1>1
  <2> QED BY <1>2, <2>1, <2>2, SetOf
<1>5. ASSUME NEW x \in ToSet(t) PROVE x \in ToSet(u)
  <2>1. PICK i \in 1 .. n : x = t[i]
    BY SetOf DEF n
  <2>2. i + m \in 1 .. m + n /\ ~(i + m <= m) /\ (i + m) - m = i
    BY <1>1
  <2> QED BY <1>2, <2>1, <2>2, SetOf
<1> QED BY <1>2, <1>3, <1>4, <1>5 DEF u

LEMMA RisingConcat ==
  ASSUME NEW s \in Seq(Nat), NEW t \in Seq(Nat)
  PROVE  Rising(s \o t) <=> Rising(s) /\ Rising(t) /\ Older(ToSet(s), ToSet(t))
<1> DEFINE u == s \o t
           m == Len(s)
           n == Len(t)
<1>1. m \in Nat /\ n \in Nat
  BY SetOf
<1>2. /\ Len(u) = m + n
      /\ \A i \in 1 .. m + n : u[i] = IF i <= m THEN s[i] ELSE t[i - m]
  BY ConcatProperties
<1> HIDE DEF u, m, n
<1>3. ASSUME Rising(s), Rising(t), Older(ToSet(s), ToSet(t)) PROVE Rising(u)
  <2> SUFFICES ASSUME NEW i \in 1 .. m + n, NEW j \in 1 .. m + n, i < j PROVE u[i] < u[j]
    BY <1>2 DEF Rising
  <2>1. CASE j <= m
    <3>1. i \in 1 .. m /\ j \in 1 .. m /\ i <= m
      BY <1>1, <2>1
    <3> QED BY <1>2, <1>3, <2>1, <3>1 DEF Rising, m
  <2>2. CASE i <= m /\ ~(j <= m)
    <3>1. i \in 1 .. m /\ j - m \in 1 .. n
      BY <1>1, <2>2
    <3>2. s[i] \in ToSet(s) /\ t[j - m] \in ToSet(t)
      BY <3>1, SetOf DEF m, n
    <3> QED BY <1>2, <1>3, <2>2, <3>1, <3>2 DEF Older
  <2>3. CASE ~(i <= m)
    <3>1. i - m \in 1 .. n /\ j - m \in 1 .. n /\ i - m < j - m /\ ~(j <= m)
      BY <1>1, <2>3
    <3> QED BY <1>2, <1>3, <2>3, <3>1 DEF Rising, n
  <2> QED BY <2>1, <2>2, <2>3
<1>4. ASSUME Rising(u) PROVE Rising(s) /\ Rising(t) /\ Older(ToSet(s), ToSet(t))
  <2>1. ASSUME NEW i \in 1 .. m, NEW j \in 1 .. m, i < j PROVE s[i] < s[j]
    <3>1. i \in 1 .. m + n /\ j \in 1 .. m + n /\ i <= m /\ j <= m
      BY <1>1
    <3> QED BY <1>2, <1>4, <2>1, <3>1 DEF Rising
  <2>2. ASSUME NEW i \in 1 .. n, NEW j \in 1 .. n, i < j PROVE t[i] < t[j]
    <3>1. i + m \in 1 .. m + n /\ j + m \in 1 .. m + n /\ ~(i + m <= m) /\ ~(j + m <= m)
          /\ (i + m) - m = i /\ (j + m) - m = j /\ i + m < j + m
      BY <1>1, <2>2
    <3> QED BY <1>2, <1>4, <3>1 DEF Rising
  <2>3. ASSUME NEW i \in 1 .. m, NEW j \in 1 .. n PROVE s[i] < t[j]
    <3>1. i \in 1 .. m + n /\ j + m \in 1 .. m + n /\ i <= m /\ ~(j + m <= m)
          /\ (j + m) - m = j /\ i < j + m
      BY <1>1
    <3> QED BY <1>2, <1>4, <3>1 DEF Rising
  <2>4. Older(ToSet(s), ToSet(t))
    BY <2>3, SetOf DEF Older, m, n
  <2> QED BY <2>1, <2>2, <2>4 DEF Rising, m, n
<1> QED BY <1>3, <1>4 DEF u

(* A sequence is its first n elements and the others.                      *)
LEMMA Halves ==
  ASSUME NEW s \in Seq(Nat), NEW n \in 0 .. Len(s)
  PROVE  /\ SubSeq(s, 1, n) \in Seq(Nat) /\ Len(SubSeq(s, 1, n)) = n
         /\ SubSeq(s, n + 1, Len(s)) \in Seq(Nat)
         /\ SubSeq(s, 1, n) \o SubSeq(s, n + 1, Len(s)) = s
<1>1. Len(s) \in Nat /\ \A i \in 1 .. Len(s) : s[i] \in Nat
  BY SetOf
<1>2. SubSeq(s, 1, n) \in Seq(Nat) /\ Len(SubSeq(s, 1, n)) = n
  <2>1. \A i \in 1 .. n : s[i] \in Nat
    BY <1>1
  <2>2. n \in Int /\ (IF 1 <= n THEN n - 1 + 1 ELSE 0) = n
    BY <1>1
  <2> QED BY <2>1, <2>2, SubSeqProperties
<1>3. SubSeq(s, n + 1, Len(s)) \in Seq(Nat)
  <2>1. \A i \in n + 1 .. Len(s) : s[i] \in Nat
    BY <1>1
  <2> QED BY <1>1, <2>1, SubSeqProperties
<1>4. SubSeq(s, 1, n) \o SubSeq(s, n + 1, Len(s)) = s
  <2>1. 1 \in 1 .. Len(s) + 1 /\ n \in 1 - 1 .. Len(s) /\ Len(s) \in n .. Len(s)
    BY <1>1
  <2>2. SubSeq(s, 1, n) \o SubSeq(s, n + 1, Len(s)) = SubSeq(s, 1, Len(s))
    BY <2>1, ConcatAdjacentSubSeq
  <2> QED BY <2>2, SubSeqFull
<1> QED BY <1>2, <1>3, <1>4

LEMMA ConcatThrice ==
  ASSUME NEW s \in Seq(Nat), NEW t \in Seq(Nat), NEW u \in Seq(Nat)
  PROVE  (s \o t) \o u = s \o (t \o u)
  BY ConcatAssociative, SMTT(30)

LEMMA Ends ==
  ASSUME NEW s \in Seq(Nat), s # <<>>
  PROVE  /\ Head(s) = s[1] /\ Head(s) \in ToSet(s) /\ Last(s) \in ToSet(s)
         /\ Logger!Last(s) = Last(s) /\ Len(s) \in Nat \ {0}
<1>1. Len(s) \in Nat \ {0}
  BY EmptySeq
<1>2. 1 \in 1 .. Len(s) /\ Len(s) \in 1 .. Len(s)
  BY <1>1
<1>3. Head(s) = s[1]
  OBVIOUS
<1> QED BY <1>1, <1>2, <1>3, SetOf DEF Last, Logger!Last

LEMMA SetOfAppend ==
  ASSUME NEW s \in Seq(Nat), NEW x \in Nat
  PROVE  /\ Append(s, x) \in Seq(Nat) /\ ToSet(Append(s, x)) = ToSet(s) \cup {x}
         /\ Append(s, x) = s \o <<x>> /\ Append(s, x) # <<>>
         /\ Rising(s) /\ (\A y \in ToSet(s) : y < x) => Rising(Append(s, x))
<1> DEFINE t == <<x>>
<1>1. t \in Seq(Nat) /\ ToSet(t) = {x} /\ Rising(t)
  <2>1. t \in Seq(Nat) /\ Len(t) = 1 /\ t[1] = x
    OBVIOUS
  <2>2. 1 .. 1 = {1}
    OBVIOUS
  <2> HIDE DEF t
  <2>3. ToSet(t) = {x}
    BY <2>1, <2>2, SetOf
  <2> QED BY <2>1, <2>3 DEF Rising
<1>2. Append(s, x) = s \o t
  OBVIOUS
<1> HIDE DEF t
<1>3. Append(s, x) \in Seq(Nat) /\ ToSet(Append(s, x)) = ToSet(s) \cup {x}
  BY <1>1, <1>2, SetOfConcat
<1>4. Append(s, x) # <<>>
  BY <1>3, SetOfEmpty
<1>5. Rising(s) /\ (\A y \in ToSet(s) : y < x) => Rising(Append(s, x))
  BY <1>1, <1>2, RisingConcat DEF Older
<1> QED BY <1>2, <1>3, <1>4, <1>5 DEF t

-----------------------------------------------------------------------------
(* FileLogger.                                                             *)

Kept == UNION {ToSet(files[n]) : n \in Logger!Names}
Steady == logBudget.faults = Faults /\ logBudget.changes = Changes

LogPlaces == [at : {"idle", "close", "rename", "first", "open"}, name : Int]
LogBudgets == [faults : 0 .. Faults, crashes : 0 .. Crashes, changes : 0 .. Changes]

LoggerTyping ==
  /\ logged \in Nat /\ buffer \in Seq(Nat) /\ files \in [Logger!Names -> Seq(Nat)]
  /\ numRolloverFiles \in 0 .. LoggerTop
  /\ logPc \in LogPlaces
  /\ logPc.at = "rename" => logPc.name \in 1 .. numRolloverFiles
  /\ logPc.at = "first" => numRolloverFiles >= 1
  /\ logBudget \in LogBudgets
  /\ block \in BOOLEAN
  /\ ~block => buffer = <<>>

(* The records are older from name to name, and those that are buffered    *)
(* are the newest.                                                         *)
LoggerOrder ==
  /\ Rising(buffer) /\ \A n \in Logger!Names : Rising(files[n]) /\ Older(ToSet(files[n]), ToSet(buffer))
  /\ \A n, m \in Logger!Names : n < m => Older(ToSet(files[m]), ToSet(files[n]))
  /\ \A x \in ToSet(buffer) : x <= logged
  /\ \A n \in Logger!Names : \A x \in ToSet(files[n]) : x <= logged

LoggerSafe ==
  /\ safe \subseteq 0 .. logged /\ Older(safe, ToSet(buffer))
  /\ Steady => Older(safe \ Kept, Kept)

(* While nothing fails, names beyond the last are not in use, and a roll   *)
(* over that has come to a name has left none behind it.                   *)
LoggerHoles ==
  Steady =>
    /\ \A n \in Logger!Names : n > numRolloverFiles + 1 => files[n] = <<>>
    /\ logPc.at = "rename" /\ logPc.name < numRolloverFiles => files[logPc.name + 1] = <<>>
    /\ logPc.at = "first" => files[1] = <<>>

LoggerInv == LoggerTyping /\ LoggerOrder /\ LoggerSafe /\ LoggerHoles

LEMMA LoggerNumbers ==
  /\ LoggerTop \in Nat /\ Sizes \subseteq Nat /\ Faults \in Nat /\ Crashes \in Nat /\ Changes \in Nat
  /\ Logger!Names = 0 .. (LoggerTop + 1) /\ 0 \in Logger!Names /\ 1 \in Logger!Names
  /\ \A n \in 1 .. LoggerTop : n \in Logger!Names /\ n + 1 \in Logger!Names
  BY ServicesAssumption, RollerAssumption DEF Logger!Names

LEMMA LoggerInit == Logger!Init => LoggerInv
<1> SUFFICES ASSUME Logger!Init PROVE LoggerInv
  OBVIOUS
<1>1. buffer = <<>> /\ files = [n \in Logger!Names |-> <<>>] /\ safe = {} /\ logged = 0
      /\ numRolloverFiles \in 0 .. LoggerTop /\ block \in BOOLEAN
      /\ logPc = [at |-> "idle", name |-> 0]
      /\ logBudget = [faults |-> Faults, crashes |-> Crashes, changes |-> Changes]
  BY DEF Logger!Init, Logger!Idle
<1>2. LoggerTyping
  BY <1>1, SetOfEmpty, LoggerNumbers DEF LoggerTyping, LogPlaces, LogBudgets
<1>3. LoggerOrder
  BY <1>1, SetOfEmpty, LoggerNumbers DEF LoggerOrder, Older
<1>4. LoggerSafe
  BY <1>1, SetOfEmpty, LoggerNumbers DEF LoggerSafe, Older
<1>5. LoggerHoles
  BY <1>1, LoggerNumbers DEF LoggerHoles
<1> QED BY <1>2, <1>3, <1>4, <1>5 DEF LoggerInv

LEMMA BlockIs == ASSUME LoggerTyping PROVE block \in BOOLEAN /\ (~block => buffer = <<>>)
<1>1. block \in BOOLEAN
  BY DEF LoggerTyping
<1>2. ~block => buffer = <<>>
  BY DEF LoggerTyping
<1> QED BY <1>1, <1>2

LEMMA BudgetIs == LoggerTyping => logBudget \in LogBudgets
  BY DEF LoggerTyping

(* A call that fails, and a setting that is changed, are not forgotten.    *)
LEMMA SteadyBefore ==
  ASSUME LoggerTyping, [Logger!Next]_loggerVars
  PROVE  (Steady' => Steady) /\ logBudget' \in LogBudgets /\ logPc' \in LogPlaces
<1>0. logBudget \in LogBudgets /\ Faults \in Nat /\ Crashes \in Nat /\ Changes \in Nat
  BY BudgetIs, LoggerNumbers
<1>1. \/ logBudget' = logBudget
      \/ logBudget.faults > 0 /\ logBudget' = [logBudget EXCEPT !.faults = @ - 1]
      \/ logBudget.crashes > 0 /\ logBudget' = [logBudget EXCEPT !.crashes = @ - 1]
      \/ logBudget.changes > 0 /\ logBudget' = [logBudget EXCEPT !.changes = @ - 1]
  BY DEF Logger!Next, Logger!Open, Logger!Close, Logger!Flush, Logger!Spill, Logger!Log,
         Logger!SetRolloverSize, Logger!SetNumRolloverFiles, Logger!RollClose, Logger!Rename,
         Logger!RenameFirst, Logger!Reopen, Logger!Crash, Logger!OpenFile, Logger!CloseNoLock,
         Logger!Put, Logger!Fail, loggerVars
<1>2. (Steady' => Steady) /\ logBudget' \in LogBudgets
  BY <1>0, <1>1 DEF LogBudgets, Steady
<1>3. logPc' \in LogPlaces
  <2>1. \/ logPc' = logPc
        \/ logPc' = [at |-> "idle", name |-> 0] \/ logPc' = [at |-> "close", name |-> 0]
        \/ logPc' = [at |-> "open", name |-> 0] \/ logPc' = [at |-> "first", name |-> 0]
        \/ logPc' = [at |-> "rename", name |-> numRolloverFiles]
        \/ logPc' = [logPc EXCEPT !.name = @ - 1]
    BY DEF Logger!Next, Logger!Open, Logger!Close, Logger!Flush, Logger!Spill, Logger!Log,
           Logger!SetRolloverSize, Logger!SetNumRolloverFiles, Logger!RollClose, Logger!Rename,
           Logger!RenameFirst, Logger!Reopen, Logger!Crash, Logger!CloseNoLock,
           Logger!Idle, loggerVars
  <2>2. logPc \in LogPlaces /\ numRolloverFiles \in Int
    BY LoggerNumbers DEF LoggerTyping
  <2> QED BY <2>1, <2>2 DEF LogPlaces
<1> QED BY <1>2, <1>3

(* The first n records of the buffer go to the file; the others are kept   *)
(* or lost.                                                                *)
LEMMA LoggerFlushed ==
  ASSUME LoggerTyping, LoggerOrder, LoggerSafe, Steady' => Steady, UNCHANGED logged,
         NEW n \in 0 .. Len(buffer),
         files' = [files EXCEPT ![0] = @ \o SubSeq(buffer, 1, n)],
         safe' = safe \cup Logger!ToSet(SubSeq(buffer, 1, n)),
         buffer' = SubSeq(buffer, n + 1, Len(buffer)) \/ buffer' = <<>>
  PROVE  /\ files' \in [Logger!Names -> Seq(Nat)] /\ buffer' \in Seq(Nat)
         /\ \A m \in Logger!Names \ {0} : files'[m] = files[m]
         /\ LoggerOrder' /\ LoggerSafe'
<1> DEFINE a == SubSeq(buffer, 1, n)
           b == SubSeq(buffer, n + 1, Len(buffer))
           N == Logger!Names
<1>1. a \in Seq(Nat) /\ b \in Seq(Nat) /\ a \o b = buffer
  BY Halves DEF LoggerTyping
<1> HIDE DEF a, b
<1>2. /\ ToSet(buffer) = ToSet(a) \cup ToSet(b)
      /\ Rising(a) /\ Rising(b) /\ Older(ToSet(a), ToSet(b))
  BY <1>1, SetOfConcat, RisingConcat DEF LoggerOrder
<1>3. buffer' \in Seq(Nat) /\ Rising(buffer') /\ ToSet(buffer') \subseteq ToSet(b)
  BY <1>1, <1>2, SetOfEmpty DEF b
<1>4. /\ files' \in [N -> Seq(Nat)] /\ files'[0] = files[0] \o a
      /\ \A m \in N \ {0} : files'[m] = files[m]
      /\ ToSet(files'[0]) = ToSet(files[0]) \cup ToSet(a)
  <2>1. files[0] \in Seq(Nat) /\ files[0] \o a \in Seq(Nat)
        /\ ToSet(files[0] \o a) = ToSet(files[0]) \cup ToSet(a)
    BY <1>1, LoggerNumbers, SetOfConcat DEF LoggerTyping
  <2> QED BY <2>1, LoggerNumbers DEF LoggerTyping, a
<1>5. Rising(files'[0])
  BY <1>1, <1>2, <1>4, LoggerNumbers, RisingConcat DEF LoggerOrder, LoggerTyping, Older
<1>6. LoggerOrder'
  <2>1. \A m \in N : Rising(files'[m]) /\ Older(ToSet(files'[m]), ToSet(buffer'))
    BY <1>2, <1>3, <1>4, <1>5 DEF LoggerOrder, Older
  <2>2. ASSUME NEW k \in N, NEW m \in N, k < m PROVE Older(ToSet(files'[m]), ToSet(files'[k]))
    <3>1. m # 0
      BY <2>2, LoggerNumbers
    <3> QED BY <1>2, <1>4, <2>2, <3>1 DEF LoggerOrder, Older
  <2>3. \A x \in ToSet(buffer') : x <= logged
    BY <1>2, <1>3 DEF LoggerOrder
  <2>4. \A m \in N : \A x \in ToSet(files'[m]) : x <= logged
    BY <1>2, <1>4 DEF LoggerOrder
  <2> QED BY <1>3, <2>1, <2>2, <2>3, <2>4 DEF LoggerOrder, Logger!Names
<1>7. Kept' = Kept \cup ToSet(a)
  <2>1. ASSUME NEW x PROVE x \in Kept' <=> x \in Kept \cup ToSet(a)
    <3>1. x \in Kept' <=> \E m \in N : x \in ToSet(files'[m])
      BY DEF Kept, Logger!Names
    <3>2. x \in Kept <=> \E m \in N : x \in ToSet(files[m])
      BY DEF Kept
    <3> QED BY <1>4, <3>1, <3>2, LoggerNumbers
  <2> QED BY <2>1
<1>8. safe' = safe \cup ToSet(a)
  BY <1>1, SetOf DEF a
<1>9. LoggerSafe'
  <2>1. \A x \in ToSet(a) : x \in Nat /\ x <= logged
    BY <1>1, <1>2, SetOf DEF LoggerOrder
  <2>2. safe' \subseteq 0 .. logged
    <3>1. ToSet(a) \subseteq 0 .. logged
      BY <2>1 DEF LoggerTyping
    <3> QED BY <1>8, <3>1 DEF LoggerSafe
  <2>3. Older(safe', ToSet(buffer'))
    BY <1>2, <1>3, <1>8 DEF LoggerSafe, Older
  <2>4. ASSUME Steady PROVE Older(safe' \ Kept', Kept')
    BY <1>2, <1>7, <1>8, <2>4 DEF LoggerSafe, Older
  <2> QED BY <2>2, <2>3, <2>4 DEF LoggerSafe
<1> QED BY <1>3, <1>4, <1>6, <1>9

(* A new record comes behind all others.                                   *)
LEMMA LoggerPut ==
  ASSUME LoggerTyping, LoggerOrder, LoggerSafe, Steady' => Steady, logged' = logged + 1,
         \/ UNCHANGED <<files, safe, buffer>>
         \/ buffer' = Append(buffer, logged') /\ UNCHANGED <<files, safe>>
         \/ /\ files' = [files EXCEPT ![0] = Append(@, logged')]
            /\ safe' = safe \cup {logged'}
            /\ buffer = <<>> /\ buffer' = <<>>
  PROVE  /\ files' \in [Logger!Names -> Seq(Nat)] /\ buffer' \in Seq(Nat)
         /\ \A m \in Logger!Names \ {0} : files'[m] = files[m]
         /\ LoggerOrder' /\ LoggerSafe'
<1> DEFINE N == Logger!Names
           r == logged + 1
<1>1. /\ logged \in Nat /\ r \in Nat /\ buffer \in Seq(Nat) /\ files \in [N -> Seq(Nat)]
      /\ \A m \in N : files[m] \in Seq(Nat) /\ ToSet(files[m]) \subseteq Nat
      /\ ToSet(buffer) \subseteq Nat
  BY SetOf DEF LoggerTyping
<1>2. /\ \A x \in ToSet(buffer) : x < r /\ x <= r
      /\ \A m \in N : \A x \in ToSet(files[m]) : x < r /\ x <= r
      /\ r <= r
  <2>1. \A x \in Nat : x <= logged => x < r /\ x <= r
    BY <1>1
  <2>2. /\ \A x \in ToSet(buffer) : x \in Nat /\ x <= logged
        /\ \A m \in N : \A x \in ToSet(files[m]) : x \in Nat /\ x <= logged
    <3>1. \A x \in ToSet(buffer) : x \in Nat /\ x <= logged
      <4>1. ToSet(buffer) \subseteq Nat
        BY <1>1
      <4>2. \A x \in ToSet(buffer) : x <= logged
        BY DEF LoggerOrder
      <4> QED BY <4>1, <4>2
    <3>2. ASSUME NEW m \in N, NEW x \in ToSet(files[m]) PROVE x \in Nat /\ x <= logged
      BY <1>1 DEF LoggerOrder
    <3> QED BY <3>1, <3>2
  <2> HIDE DEF N
  <2>3. r <= r
    BY <1>1
  <2> QED BY <2>1, <2>2, <2>3
<1> HIDE DEF r
<1>3. logged' = r /\ N' = N
  BY DEF r, Logger!Names
<1>4. CASE UNCHANGED <<files, safe, buffer>>
  <2>1. LoggerOrder'
    BY <1>2, <1>3, <1>4 DEF LoggerOrder
  <2>2. 0 .. logged \subseteq 0 .. r
    BY <1>1 DEF r
  <2>3. LoggerSafe'
    BY <1>3, <1>4, <2>2 DEF LoggerSafe, Kept
  <2> QED BY <1>1, <1>4, <2>1, <2>3
<1>5. CASE buffer' = Append(buffer, logged') /\ UNCHANGED <<files, safe>>
  <2>0. Rising(buffer)
    BY DEF LoggerOrder
  <2>1. buffer' \in Seq(Nat) /\ ToSet(buffer') = ToSet(buffer) \cup {r} /\ Rising(buffer')
    BY <1>1, <1>2, <1>3, <1>5, <2>0, SetOfAppend
  <2>2. \A m \in N : Older(ToSet(files[m]), ToSet(buffer'))
    BY <1>1, <1>2, <2>1 DEF LoggerOrder, Older
  <2>3. \A x \in ToSet(buffer') : x <= r
    BY <1>2, <2>1
  <2>4. LoggerOrder'
    BY <1>1, <1>2, <1>3, <1>5, <2>1, <2>2, <2>3 DEF LoggerOrder
  <2>5. 0 .. logged \subseteq 0 .. r /\ \A x \in 0 .. logged : x < r
    BY <1>1 DEF r
  <2>6. LoggerSafe'
    BY <1>3, <1>5, <2>1, <2>5 DEF LoggerSafe, Kept, Older
  <2> QED BY <1>1, <1>5, <2>1, <2>4, <2>6
<1>6. CASE /\ files' = [files EXCEPT ![0] = Append(@, logged')]
           /\ safe' = safe \cup {logged'}
           /\ buffer = <<>> /\ buffer' = <<>>
  <2>1. /\ Append(files[0], r) \in Seq(Nat) /\ ToSet(Append(files[0], r)) = ToSet(files[0]) \cup {r}
        /\ Rising(Append(files[0], r))
    BY <1>1, <1>2, LoggerNumbers, SetOfAppend DEF LoggerOrder
  <2>2. /\ files' \in [N -> Seq(Nat)] /\ Rising(files'[0])
        /\ ToSet(files'[0]) = ToSet(files[0]) \cup {r}
        /\ \A m \in N \ {0} : files'[m] = files[m]
    BY <1>1, <1>3, <1>6, <2>1, LoggerNumbers
  <2>3. ASSUME NEW k \in N, NEW m \in N, k < m PROVE Older(ToSet(files'[m]), ToSet(files'[k]))
    <3>1. m # 0
      BY <2>3, LoggerNumbers
    <3>2. files'[m] = files[m] /\ Older(ToSet(files[m]), ToSet(files[k]))
      BY <2>2, <2>3, <3>1 DEF LoggerOrder
    <3>3. ToSet(files'[k]) \subseteq ToSet(files[k]) \cup {r} /\ \A x \in ToSet(files[m]) : x < r
      BY <1>2, <2>2
    <3> QED BY <3>2, <3>3 DEF Older
  <2>4. \A m \in N : \A x \in ToSet(files'[m]) : x <= r
    BY <1>2, <2>2, LoggerNumbers
  <2>5. LoggerOrder'
    BY <1>3, <1>6, <2>2, <2>3, <2>4, SetOfEmpty DEF LoggerOrder, Older
  <2>6. 0 .. logged \subseteq 0 .. r /\ r \in 0 .. r /\ \A x \in 0 .. logged : x < r
    BY <1>1 DEF r
  <2>7. Kept' = Kept \cup {r}
    <3>1. ASSUME NEW x PROVE x \in Kept' <=> x \in Kept \cup {r}
      <4>1. x \in Kept' <=> \E m \in N : x \in ToSet(files'[m])
        BY DEF Kept, Logger!Names
      <4>2. x \in Kept <=> \E m \in N : x \in ToSet(files[m])
        BY DEF Kept
      <4> QED BY <2>2, <4>1, <4>2, LoggerNumbers
    <3> QED BY <3>1
  <2>8. LoggerSafe'
    BY <1>3, <1>6, <2>6, <2>7, SetOfEmpty DEF LoggerSafe, Older
  <2> QED BY <1>6, <2>2, <2>5, <2>8, SetOfEmpty
<1> QED BY <1>4, <1>5, <1>6

(* A name gets the records of the one before it.                           *)
LEMMA LoggerRenamed ==
  ASSUME LoggerTyping, LoggerOrder, LoggerSafe, Steady' => Steady,
         UNCHANGED <<buffer, safe, logged>>,
         NEW k \in 0 .. LoggerTop, Logger!Renamed(k, k + 1),
         Steady => files[k + 1] = <<>> \/ \A n \in Logger!Names : n > k + 1 => files[n] = <<>>
  PROVE  /\ files' \in [Logger!Names -> Seq(Nat)]
         /\ files'[k] = <<>> /\ files'[k + 1] = files[k]
         /\ \A m \in Logger!Names \ {k, k + 1} : files'[m] = files[m]
         /\ LoggerOrder' /\ LoggerSafe'
<1> DEFINE N == Logger!Names
           e == <<>>
<1>1. /\ k \in N /\ k + 1 \in N /\ k # k + 1 /\ N = 0 .. (LoggerTop + 1)
      /\ files \in [N -> Seq(Nat)] /\ N' = N
  BY LoggerNumbers DEF LoggerTyping, Logger!Names
<1>2. e \in Seq(Nat) /\ ToSet(e) = {} /\ Rising(e)
  BY SetOfEmpty
<1> HIDE DEF e
<1>3. files' = [files EXCEPT ![k] = e, ![k + 1] = files[k]]
  BY DEF Logger!Renamed, e
<1>4. /\ files' \in [N -> Seq(Nat)] /\ files'[k] = e /\ files'[k + 1] = files[k]
      /\ \A m \in N \ {k, k + 1} : files'[m] = files[m]
  BY <1>1, <1>2, <1>3
<1>5. ASSUME NEW m \in N
      PROVE  /\ Rising(files'[m]) /\ Older(ToSet(files'[m]), ToSet(buffer))
             /\ \A x \in ToSet(files'[m]) : x <= logged
  <2>1. CASE m = k
    BY <1>2, <1>4, <2>1 DEF Older
  <2>2. CASE m = k + 1
    BY <1>1, <1>4, <2>2 DEF LoggerOrder
  <2>3. CASE m \notin {k, k + 1}
    BY <1>1, <1>4, <2>3 DEF LoggerOrder
  <2> QED BY <2>1, <2>2, <2>3
<1>6. ASSUME NEW n \in N, NEW m \in N, n < m PROVE Older(ToSet(files'[m]), ToSet(files'[n]))
  <2>1. CASE n = k \/ m = k
    BY <1>2, <1>4, <2>1 DEF Older
  <2>2. CASE n = k + 1
    <3>1. m \notin {k, k + 1} /\ k < m
      BY <1>1, <1>6, <2>2
    <3> QED BY <1>1, <1>4, <2>2, <3>1 DEF LoggerOrder
  <2>3. CASE m = k + 1 /\ n # k
    <3>1. n \notin {k, k + 1} /\ n < k
      BY <1>1, <1>6, <2>3
    <3> QED BY <1>1, <1>4, <2>3, <3>1 DEF LoggerOrder
  <2>4. CASE n \notin {k, k + 1} /\ m \notin {k, k + 1}
    BY <1>1, <1>4, <1>6, <2>4 DEF LoggerOrder
  <2> QED BY <2>1, <2>2, <2>3, <2>4
<1>7. LoggerOrder'
  BY <1>1, <1>5, <1>6 DEF LoggerOrder
<1>8. LoggerSafe'
  <2> SUFFICES ASSUME Steady, NEW x \in safe, x \notin Kept', NEW y \in Kept' PROVE x < y
    BY DEF LoggerSafe, Older
  <2>1. PICK j \in N \ {k + 1} : y \in ToSet(files[j])
    <3>1. PICK m \in N : y \in ToSet(files'[m])
      BY DEF Kept, Logger!Names
    <3>2. m # k
      BY <1>2, <1>4, <3>1
    <3> QED BY <1>1, <1>4, <3>1, <3>2
  <2>2. CASE x \notin Kept
    <3>1. y \in Kept
      BY <2>1 DEF Kept
    <3> QED BY <2>2, <3>1 DEF LoggerSafe, Older
  <2>3. CASE x \in Kept
    <3>1. PICK m \in N : x \in ToSet(files[m])
      BY <2>3 DEF Kept
    <3>2. \A n \in N : x \notin ToSet(files'[n])
      BY <1>1 DEF Kept
    <3>3. m = k + 1
      BY <1>1, <1>4, <3>1, <3>2
    <3>4. files[k + 1] # <<>>
      BY <1>2, <3>1, <3>3 DEF e
    <3>5. j < k + 1
      <4>1. ~(j > k + 1)
        BY <1>2, <2>1, <3>4 DEF e
      <4> QED BY <1>1, <2>1, <4>1
    <3> QED BY <1>1, <2>1, <3>1, <3>3, <3>5 DEF LoggerOrder, Older
  <2> QED BY <2>2, <2>3
<1> QED BY <1>4, <1>7, <1>8 DEF e

LEMMA FailIsNoted == ASSUME LoggerTyping, Logger!Fail PROVE ~Steady'
<1>1. logBudget.faults \in 0 .. Faults /\ logBudget'.faults = logBudget.faults - 1
  BY DEF LoggerTyping, LogBudgets, Logger!Fail
<1> QED BY <1>1, LoggerNumbers DEF Steady

LEMMA LoggerHolesKept ==
  ASSUME LoggerTyping, LoggerHoles, Steady' => Steady, UNCHANGED numRolloverFiles,
         \A m \in Logger!Names \ {0} : files'[m] = files[m],
         \/ logPc' = logPc
         \/ logPc'.at \in {"idle", "close", "open"}
         \/ logPc'.at = "rename" /\ logPc'.name = numRolloverFiles
  PROVE  LoggerHoles'
<1> SUFFICES ASSUME Steady
             PROVE  /\ \A n \in Logger!Names : n > numRolloverFiles + 1 => files'[n] = <<>>
                    /\ logPc'.at = "rename" /\ logPc'.name < numRolloverFiles =>
                         files'[logPc'.name + 1] = <<>>
                    /\ logPc'.at = "first" => files'[1] = <<>>
  BY DEF LoggerHoles, Logger!Names
<1>1. numRolloverFiles \in 0 .. LoggerTop
  BY DEF LoggerTyping
<1>2. \A n \in Logger!Names : n > numRolloverFiles + 1 => files'[n] = <<>>
  <2>1. \A n \in Logger!Names : n > numRolloverFiles + 1 => n # 0
    BY <1>1, LoggerNumbers
  <2> QED BY <2>1 DEF LoggerHoles
<1>3. ASSUME logPc'.at = "rename", logPc'.name < numRolloverFiles PROVE files'[logPc'.name + 1] = <<>>
  <2>1. logPc' = logPc
    BY <1>1, <1>3
  <2>2. logPc.name \in 1 .. LoggerTop
    <3>1. logPc.name \in 1 .. numRolloverFiles
      BY <1>3, <2>1 DEF LoggerTyping
    <3> QED BY <1>1, <3>1, LoggerNumbers
  <2>3. logPc.name + 1 \in Logger!Names \ {0}
    BY <2>2, LoggerNumbers
  <2> QED BY <1>3, <2>1, <2>3 DEF LoggerHoles
<1>4. ASSUME logPc'.at = "first" PROVE files'[1] = <<>>
  BY <1>4, LoggerNumbers DEF LoggerHoles
<1> QED BY <1>2, <1>3, <1>4

(* A call that leaves the records where they are.                          *)
LEMMA LoggerMoved ==
  ASSUME LoggerInv, Steady' => Steady,
         UNCHANGED <<files, safe, logged>>, buffer' = buffer \/ buffer' = <<>>
  PROVE  LoggerOrder' /\ LoggerSafe' /\ buffer' \in Seq(Nat)
<1>1. ToSet(buffer') \subseteq ToSet(buffer) /\ Rising(buffer') /\ buffer' \in Seq(Nat)
  BY SetOfEmpty DEF LoggerInv, LoggerOrder, LoggerTyping
<1>2. LoggerOrder'
  BY <1>1 DEF LoggerInv, LoggerOrder, Older, Logger!Names
<1>3. LoggerSafe'
  BY <1>1 DEF LoggerInv, LoggerSafe, Older, Kept, Logger!Names
<1> QED BY <1>1, <1>2, <1>3

LEMMA LoggerStep ==
  ASSUME LoggerInv, [Logger!Next]_loggerVars
  PROVE  LoggerInv'
<1> USE DEF Logger!Idle
<1>0. LoggerTyping /\ LoggerOrder /\ LoggerSafe /\ LoggerHoles
  BY DEF LoggerInv
<1>1. (Steady' => Steady) /\ logBudget' \in LogBudgets /\ logPc' \in LogPlaces
  BY <1>0, SteadyBefore
<1>2. Len(buffer) \in Nat /\ Len(buffer) \in 0 .. Len(buffer)
      /\ SubSeq(buffer, Len(buffer) + 1, Len(buffer)) = <<>>
  <2>1. Len(buffer) \in Nat
    BY <1>0, SetOf DEF LoggerTyping
  <2> QED BY <2>1, SubSeqEmpty
<1> DEFINE Flushing(n) ==
             /\ files' = [files EXCEPT ![0] = @ \o SubSeq(buffer, 1, n)]
             /\ safe' = safe \cup Logger!ToSet(SubSeq(buffer, 1, n))
(* What the calls do to the records, and where they go on.                 *)
<1>3. ASSUME UNCHANGED <<numRolloverFiles, logged>>,
             NEW n \in 0 .. Len(buffer), Flushing(n),
             buffer' = SubSeq(buffer, n + 1, Len(buffer)) \/ buffer' = <<>>,
             block' \in BOOLEAN, ~block' => buffer' = <<>>,
             \/ logPc' = logPc
             \/ logPc'.at \in {"idle", "open"}
             \/ logPc'.at = "rename" /\ logPc'.name = numRolloverFiles /\ numRolloverFiles >= 1
      PROVE  LoggerInv'
  <2>1. /\ files' \in [Logger!Names -> Seq(Nat)] /\ buffer' \in Seq(Nat)
        /\ \A m \in Logger!Names \ {0} : files'[m] = files[m]
        /\ LoggerOrder' /\ LoggerSafe'
    BY <1>0, <1>1, <1>3, LoggerFlushed
  <2>2. LoggerHoles'
    BY <1>0, <1>1, <1>3, <2>1, LoggerHolesKept
  <2>3. numRolloverFiles \in 0 .. LoggerTop /\ (numRolloverFiles >= 1 => numRolloverFiles \in 1 .. numRolloverFiles)
    BY <1>0, LoggerNumbers DEF LoggerTyping
  <2>4. /\ logPc'.at = "rename" => logPc'.name \in 1 .. numRolloverFiles
        /\ logPc'.at = "first" => numRolloverFiles >= 1
    BY <1>0, <1>3, <2>3 DEF LoggerTyping
  <2>5. LoggerTyping'
    BY <1>0, <1>1, <1>3, <2>1, <2>3, <2>4 DEF LoggerTyping, Logger!Names
  <2> QED BY <2>1, <2>2, <2>5 DEF LoggerInv
<1>4. ASSUME UNCHANGED <<numRolloverFiles, files, safe, logged>>,
             buffer' = buffer \/ buffer' = <<>>,
             block' = block, logPc' = logPc \/ logPc'.at = "idle"
      PROVE  LoggerInv'
  <2>1. LoggerOrder' /\ LoggerSafe' /\ buffer' \in Seq(Nat)
    BY <1>1, <1>4, LoggerMoved
  <2>2. LoggerHoles'
    BY <1>0, <1>1, <1>4, LoggerHolesKept
  <2>3. LoggerTyping'
    BY <1>0, <1>1, <1>4, <2>1 DEF LoggerTyping, Logger!Names
  <2> QED BY <2>1, <2>2, <2>3 DEF LoggerInv
<1>5. CASE Logger!Open
  <2>1. UNCHANGED <<numRolloverFiles, logged, logPc>>
    BY <1>5 DEF Logger!Open
  <2>2. CASE Logger!Flushed(Len(buffer)) /\ (block' \in BOOLEAN \/ block' = block)
    <3>1. block' \in BOOLEAN
      BY <1>0, <2>2, BlockIs
    <3> QED BY <1>2, <1>3, <2>1, <2>2, <3>1 DEF Logger!Flushed
  <2>3. CASE buffer' = <<>> /\ UNCHANGED <<files, safe, block>>
    BY <1>4, <2>1, <2>3
  <2> QED BY <1>5, <2>2, <2>3 DEF Logger!Open
<1>6. ASSUME NEW to, NEW else, Logger!CloseNoLock(to, else), UNCHANGED <<numRolloverFiles, logged, block>>,
             else.at = "idle",
             \/ to.at \in {"idle", "open"}
             \/ to.at = "rename" /\ to.name = numRolloverFiles /\ numRolloverFiles >= 1
      PROVE  LoggerInv'
  <2>1. block' \in BOOLEAN /\ buffer' = <<>>
    BY <1>0, <1>2, <1>6, BlockIs DEF Logger!CloseNoLock, Logger!Flushed
  <2>2. logPc' = to \/ logPc' = else
    BY <1>6 DEF Logger!CloseNoLock
  <2>3. PICK n \in 0 .. Len(buffer) : Flushing(n)
    BY <1>2, <1>6 DEF Logger!CloseNoLock, Logger!Flushed
  <2> QED BY <1>3, <1>6, <2>1, <2>2, <2>3
<1>7. CASE Logger!Close
  BY <1>6, <1>7 DEF Logger!Close
<1>8. CASE Logger!Flush
  <2>1. UNCHANGED <<numRolloverFiles, logged, logPc, block>> /\ block \in BOOLEAN
    BY <1>0, <1>8, BlockIs DEF Logger!Flush
  <2>2. CASE Logger!Flushed(Len(buffer))
    BY <1>2, <1>3, <2>1, <2>2 DEF Logger!Flushed
  <2>3. CASE UNCHANGED <<files, safe, buffer>>
    BY <1>4, <2>1, <2>3
  <2> QED BY <1>8, <2>2, <2>3 DEF Logger!Flush
<1>9. CASE Logger!Spill
  <2>1. UNCHANGED <<numRolloverFiles, logged, logPc, block>> /\ Logger!Flushed(1) /\ buffer # <<>>
    BY <1>9 DEF Logger!Spill
  <2>2. 1 \in 0 .. Len(buffer) /\ block \in BOOLEAN /\ block
    <3>1. block \in BOOLEAN /\ block
      BY <1>0, <2>1, BlockIs
    <3>2. buffer \in Seq(Nat)
      BY <1>0 DEF LoggerTyping
    <3>3. Len(buffer) \in Nat \ {0}
      BY <2>1, <3>2, Ends
    <3> QED BY <3>1, <3>3
  <2> QED BY <1>3, <2>1, <2>2 DEF Logger!Flushed
<1>10. CASE Logger!Log
  <2>1. /\ UNCHANGED <<numRolloverFiles, block>> /\ logged' = logged + 1
        /\ logPc'.at = "close" \/ logPc'.at = "idle"
        /\ \/ UNCHANGED <<files, safe, buffer>>
           \/ block /\ buffer' = Append(buffer, logged') /\ UNCHANGED <<files, safe>>
           \/ /\ ~block /\ files' = [files EXCEPT ![0] = Append(@, logged')]
              /\ safe' = safe \cup {logged'}
              /\ UNCHANGED buffer
    BY <1>10 DEF Logger!Log, Logger!Put
  <2>2. ~block => buffer = <<>>
    BY <1>0, BlockIs
  <2>3. /\ files' \in [Logger!Names -> Seq(Nat)] /\ buffer' \in Seq(Nat)
        /\ \A m \in Logger!Names \ {0} : files'[m] = files[m]
        /\ LoggerOrder' /\ LoggerSafe'
    BY <1>0, <1>1, <2>1, <2>2, LoggerPut
  <2>4. LoggerHoles'
    BY <1>0, <1>1, <2>1, <2>3, LoggerHolesKept
  <2>5. logged' \in Nat /\ (~block' => buffer' = <<>>)
    BY <1>0, <2>1, <2>2 DEF LoggerTyping
  <2>6. LoggerTyping'
    BY <1>0, <1>1, <2>1, <2>3, <2>5 DEF LoggerTyping, Logger!Names
  <2> QED BY <2>3, <2>4, <2>6 DEF LoggerInv
<1>11. ASSUME NEW n \in Sizes, Logger!SetRolloverSize(n) PROVE LoggerInv'
  BY <1>4, <1>11 DEF Logger!SetRolloverSize
<1>12. ASSUME NEW n \in 0 .. LoggerTop, Logger!SetNumRolloverFiles(n) PROVE LoggerInv'
  <2>1. /\ UNCHANGED <<block, file, buffer, files, safe, logPc, logged>> /\ logPc.at = "idle"
        /\ numRolloverFiles' = n
        /\ logBudget' = [logBudget EXCEPT !.changes = @ - 1]
    BY <1>12 DEF Logger!SetNumRolloverFiles
  <2>2. ~Steady'
    <3>1. logBudget.changes \in 0 .. Changes /\ logBudget'.changes = logBudget.changes - 1
      BY <1>0, <2>1, BudgetIs DEF LogBudgets
    <3> QED BY <3>1, LoggerNumbers DEF Steady
  <2>3. LoggerOrder' /\ LoggerSafe' /\ buffer' \in Seq(Nat)
    BY <1>1, <2>1, LoggerMoved
  <2>4. LoggerTyping'
    BY <1>0, <1>1, <2>1 DEF LoggerTyping, Logger!Names
  <2>5. LoggerHoles'
    BY <2>2 DEF LoggerHoles
  <2> QED BY <2>3, <2>4, <2>5 DEF LoggerInv
<1>13. CASE Logger!RollClose
  <2> DEFINE to == IF numRolloverFiles = 0 THEN [at |-> "open", name |-> 0]
                   ELSE [at |-> "rename", name |-> numRolloverFiles]
             else == [at |-> "idle", name |-> 0]
  <2>1. Logger!CloseNoLock(to, else) /\ UNCHANGED <<numRolloverFiles, logged, block>>
    BY <1>13 DEF Logger!RollClose
  <2>2. \/ to.at \in {"idle", "open"}
        \/ to.at = "rename" /\ to.name = numRolloverFiles /\ numRolloverFiles >= 1
    BY <1>0, LoggerNumbers DEF LoggerTyping
  <2>3. else.at = "idle"
    OBVIOUS
  <2> HIDE DEF to, else
  <2> QED BY <1>6, <2>1, <2>2, <2>3
<1>14. CASE Logger!Rename
  <2> DEFINE k == logPc.name
  <2>1. /\ logPc.at = "rename" /\ k \in 1 .. numRolloverFiles /\ numRolloverFiles \in 0 .. LoggerTop
        /\ UNCHANGED <<numRolloverFiles, block, buffer, safe, logged>>
    BY <1>0, <1>14 DEF Logger!Rename, LoggerTyping
  <2>2. k \in 1 .. LoggerTop /\ k \in Logger!Names /\ k + 1 \in Logger!Names /\ numRolloverFiles >= 1
    BY <2>1, LoggerNumbers
  <2>3. CASE Logger!Fail
    <3>1. CASE UNCHANGED files /\ logPc' = [at |-> "first", name |-> 0]
      <4>1. LoggerOrder' /\ LoggerSafe'
        BY <1>1, <2>1, <3>1, LoggerMoved
      <4>2. LoggerHoles'
        BY <1>0, <2>3, FailIsNoted DEF LoggerHoles
      <4>3. logPc'.at = "first"
        BY <3>1
      <4>4. LoggerTyping'
        BY <1>0, <1>1, <2>1, <2>2, <3>1, <4>3 DEF LoggerTyping, Logger!Names
      <4> QED BY <4>1, <4>2, <4>4 DEF LoggerInv
    <3>2. CASE UNCHANGED logBudget
      BY <1>0, <2>3, <3>2, BudgetIs DEF Logger!Fail, LogBudgets
    <3> QED BY <1>14, <3>1, <3>2 DEF Logger!Rename
  <2>4. CASE ~Logger!Fail
    <3>1. /\ IF files[k] # <<>> THEN Logger!Renamed(k, k + 1) ELSE UNCHANGED files
          /\ logPc' = IF k = 1 THEN [at |-> "first", name |-> 0] ELSE [logPc EXCEPT !.name = k - 1]
      BY <1>14, <2>4 DEF Logger!Rename
    <3>2. Steady => files[k + 1] = <<>> \/ \A n \in Logger!Names : n > k + 1 => files[n] = <<>>
      <4>1. k < numRolloverFiles \/ k = numRolloverFiles
        BY <2>1
      <4> QED BY <1>0, <2>1, <4>1 DEF LoggerHoles
    <3>3. /\ files' \in [Logger!Names -> Seq(Nat)] /\ files'[k] = <<>>
          /\ \A m \in Logger!Names \ {k, k + 1} : files'[m] = files[m]
          /\ LoggerOrder' /\ LoggerSafe'
      <4>1. CASE files[k] # <<>>
        <5>1. k \in 0 .. LoggerTop
          BY <2>2
        <5> QED BY <1>0, <1>1, <2>1, <3>1, <3>2, <4>1, <5>1, LoggerRenamed
      <4>2. CASE files[k] = <<>>
        <5>1. LoggerOrder' /\ LoggerSafe'
          BY <1>1, <2>1, <3>1, <4>2, LoggerMoved
        <5> QED BY <1>0, <3>1, <4>2, <5>1 DEF LoggerTyping
      <4> QED BY <4>1, <4>2
    <3>4. /\ k = 1 => logPc'.at = "first"
          /\ k # 1 => logPc'.at = "rename" /\ logPc'.name = k - 1 /\ k - 1 \in 1 .. numRolloverFiles
      <4>1. k = 1 => logPc'.at = "first"
        BY <3>1
      <4>2. k # 1 => k - 1 \in 1 .. numRolloverFiles
        BY <2>1
      <4>3. k # 1 => logPc'.at = "rename" /\ logPc'.name = k - 1
        BY <1>0, <2>1, <3>1 DEF LoggerTyping, LogPlaces
      <4> QED BY <4>1, <4>2, <4>3
    <3>5. LoggerTyping'
      BY <1>0, <1>1, <2>1, <2>2, <3>3, <3>4 DEF LoggerTyping, Logger!Names
    <3>6. LoggerHoles'
      <4> SUFFICES ASSUME Steady
                   PROVE  /\ \A n \in Logger!Names : n > numRolloverFiles + 1 => files'[n] = <<>>
                          /\ logPc'.at = "rename" => files'[logPc'.name + 1] = <<>>
                          /\ logPc'.at = "first" => files'[1] = <<>>
        BY <1>1, <2>1 DEF LoggerHoles, Logger!Names
      <4>1. ASSUME NEW n \in Logger!Names, n > numRolloverFiles + 1 PROVE files'[n] = <<>>
        <5>1. n \notin {k, k + 1}
          BY <2>1, <4>1, LoggerNumbers
        <5> QED BY <1>0, <3>3, <4>1, <5>1 DEF LoggerHoles
      <4>2. k # 1 => (k - 1) + 1 = k
        BY <2>1
      <4> QED BY <3>3, <3>4, <4>1, <4>2
    <3> QED BY <3>3, <3>5, <3>6 DEF LoggerInv
  <2> QED BY <2>3, <2>4
<1>15. CASE Logger!RenameFirst
  <2>1. /\ logPc.at = "first" /\ numRolloverFiles >= 1
        /\ UNCHANGED <<numRolloverFiles, block, buffer, safe, logged>>
        /\ logPc'.at \in {"open", "idle"}
    BY <1>0, <1>15 DEF Logger!RenameFirst, LoggerTyping
  <2>2. CASE UNCHANGED files
    <3>1. LoggerOrder' /\ LoggerSafe'
      BY <1>1, <2>1, <2>2, LoggerMoved
    <3>2. LoggerHoles'
      BY <1>0, <1>1, <2>1, <2>2, LoggerHolesKept
    <3>3. LoggerTyping'
      BY <1>0, <1>1, <2>1, <2>2 DEF LoggerTyping, Logger!Names
    <3> QED BY <3>1, <3>2, <3>3 DEF LoggerInv
  <2>3. CASE Logger!Renamed(0, 1)
    <3>1. 0 \in 0 .. LoggerTop /\ 0 + 1 = 1
      BY LoggerNumbers
    <3>2. Steady => files[0 + 1] = <<>>
      BY <1>0, <2>1 DEF LoggerHoles
    <3>3. Logger!Renamed(0, 0 + 1)
      BY <2>3
    <3>4. /\ files' \in [Logger!Names -> Seq(Nat)]
          /\ \A m \in Logger!Names \ {0, 0 + 1} : files'[m] = files[m]
          /\ LoggerOrder' /\ LoggerSafe'
      BY <1>0, <1>1, <2>1, <3>1, <3>2, <3>3, LoggerRenamed
    <3>5. LoggerTyping'
      BY <1>0, <1>1, <2>1, <3>4 DEF LoggerTyping, Logger!Names
    <3>6. LoggerHoles'
      <4>1. numRolloverFiles \in 0 .. LoggerTop
        BY <1>0 DEF LoggerTyping
      <4>2. \A n \in Logger!Names : n > numRolloverFiles + 1 => n \notin {0, 0 + 1}
        BY <2>1, <4>1, LoggerNumbers
      <4> QED BY <1>0, <1>1, <2>1, <3>4, <4>2 DEF LoggerHoles, Logger!Names
    <3> QED BY <3>4, <3>5, <3>6 DEF LoggerInv
  <2> QED BY <1>15, <2>2, <2>3 DEF Logger!RenameFirst
<1>16. CASE Logger!Reopen
  <2>1. logPc'.at = "idle"
    BY <1>16 DEF Logger!Reopen
  <2> QED BY <1>4, <1>16, <2>1 DEF Logger!Reopen
<1>17. CASE Logger!Crash
  <2>1. logPc'.at = "idle"
    BY <1>17 DEF Logger!Crash
  <2> QED BY <1>4, <1>17, <2>1 DEF Logger!Crash
<1>18. CASE UNCHANGED loggerVars
  BY <1>4, <1>18 DEF loggerVars
<1> QED BY <1>5, <1>7, <1>8, <1>9, <1>10, <1>11, <1>12, <1>13, <1>14, <1>15, <1>16, <1>17, <1>18
        DEF Logger!Next

LEMMA LoggerHolds == LoggerInv => Logger!Ordered /\ Logger!Contiguous
<1> SUFFICES ASSUME LoggerInv PROVE Logger!Ordered /\ Logger!Contiguous
  OBVIOUS
<1>0. LoggerTyping /\ LoggerOrder /\ LoggerSafe
  BY DEF LoggerInv
<1>1. \A n \in Logger!Names : files[n] \in Seq(Nat) /\ Logger!ToSet(files[n]) = ToSet(files[n])
  BY <1>0, SetOf DEF LoggerTyping
<1>2. Logger!Ordered
  <2>1. ASSUME NEW n \in Logger!Names, NEW i \in 1 .. Len(files[n]), NEW j \in 1 .. Len(files[n]), i < j
        PROVE  files[n][i] < files[n][j]
    BY <1>0, <2>1 DEF LoggerOrder, Rising
  <2>2. ASSUME NEW n \in Logger!Names, NEW m \in Logger!Names, n < m, files[n] # <<>>, files[m] # <<>>
        PROVE  Logger!Last(files[m]) < Head(files[n])
    <3>1. Head(files[n]) \in ToSet(files[n]) /\ Logger!Last(files[m]) \in ToSet(files[m])
      BY <1>1, <2>2, Ends
    <3> QED BY <1>0, <2>2, <3>1 DEF LoggerOrder, Older
  <2> QED BY <2>1, <2>2 DEF Logger!Ordered
<1>3. Logger!Contiguous
  <2>1. UNION {Logger!ToSet(files[n]) : n \in Logger!Names} = Kept
    BY <1>1 DEF Kept
  <2> QED BY <1>0, <2>1 DEF Logger!Contiguous, LoggerSafe, Older, Steady
<1> QED BY <1>2, <1>3

-----------------------------------------------------------------------------
(* FileRoller.                                                             *)

Quiet == ~cut /\ budget.faults = Faults /\ budget.changes = Changes

Places == [at : {"idle", "unlink", "link", "compress", "copy", "first", "create"}, name : Int]
Budgets == [faults : 0 .. Faults, crashes : 0 .. Crashes, changes : 0 .. Changes]

(* What is on the disk: a file that has no name is gone.                   *)
Disk ==
  /\ dir \in [Names -> Inodes \cup {0}]
  /\ data \in [Inodes -> Seq(Nat)]
  /\ \A i \in Inodes : ToSet(data[i]) \subseteq 1 .. written
  /\ \A i \in Inodes : (\A n \in Names : dir[n] # i) => data[i] = <<>>
  /\ written \in Nat

RollerTyping ==
  /\ Disk
  /\ numFiles \in 0 .. Top
  /\ compression \in {"none", "gzip", "bzip2"}
  /\ pc \in Places
  /\ budget \in Budgets

(* A higher name has an older file, or another link to the same one; the   *)
(* first file has other names only if it is not compressed.                *)
RollerOrder ==
  /\ \A n, m \in Names :
       n < m /\ Contents(n) # <<>> /\ Contents(m) # <<>> => Head(Contents(m)) <= Head(Contents(n))
  /\ compression = "none" =>
       \A n, m \in Names : n < m => dir[n] = dir[m] \/ Older(Recorded(m), Recorded(n))
  /\ \A m \in Names \ {0} :
       dir[m] # 0 /\ dir[m] = dir[0] => Contents(0) # <<>> /\ compression = "none"

(* Where RollFiles() is, and what it has done.  A compressed file has the  *)
(* first of the records of the first file.                                 *)
RollerPlace ==
  /\ pc.at \in {"unlink", "link"} => pc.name \in 1 .. numFiles /\ Contents(0) # <<>>
  /\ pc.at = "link" => dir[pc.name] = 0 /\ (pc.name = 1 => compression = "none")
  /\ pc.at \in {"compress", "copy"} => numFiles >= 1 /\ compression # "none"
  /\ pc.at = "compress" => dir[1] = 0
  /\ pc.at = "copy" =>
       /\ dir[1] # 0 /\ \A n \in Names \ {1} : dir[n] # dir[1]
       /\ Len(Contents(1)) <= Len(Contents(0))
       /\ Contents(1) = SubSeq(Contents(0), 1, Len(Contents(1)))
       /\ compression = "gzip" => Contents(1) = <<>>
  /\ pc.at = "create" => dir[0] = 0

(* Each record of a name is older than those at the names below, or is     *)
(* there as well.                                                          *)
Covered ==
  \A n, m \in Names : n < m =>
    \A r \in Recorded(m), s \in Recorded(n) : r < s \/ \E k \in Names : k <= n /\ r \in Recorded(k)

(* All that was written after a record that is kept is kept.               *)
NoGap == \A n \in Names : \A r \in Recorded(n), s \in 1 .. written :
           r < s => \E k \in Names : s \in Recorded(k)

(* While nothing fails, a name that RollFiles() unlinks has its file at    *)
(* the next name too.                                                      *)
RollerKept ==
  Quiet =>
    /\ \A n \in Names : n > numFiles => dir[n] = 0
    /\ pc.at = "unlink" /\ pc.name < numFiles => dir[pc.name + 1] = dir[pc.name]
    /\ pc.at = "first" /\ numFiles >= 1 => Recorded(0) \subseteq Recorded(1)
    /\ Covered
    /\ NoGap

RollerInv == RollerTyping /\ RollerOrder /\ RollerPlace /\ RollerKept

LEMMA RollerNumbers ==
  /\ Top \in Nat /\ MaxSize \in Nat \ {0} /\ BlockSize \in Nat \ {0}
  /\ Faults \in Nat /\ Crashes \in Nat /\ Changes \in Nat
  /\ 0 \in Names /\ Names \subseteq Nat /\ 0 \notin Inodes
  /\ \A n \in 1 .. Top : n \in Names \ {0} /\ n - 1 \in Names
  /\ \A n \in 0 .. Top : n \in Names
  BY RollerAssumption DEF Names, Inodes

LEMMA FreeInodeIs ==
  ASSUME Disk
  PROVE  FreeInode \in Inodes /\ \A n \in Names : dir[n] # FreeInode
<1> DEFINE free == {i \in Inodes : \A n \in Names : dir[n] # i}
           named == {dir[n] : n \in Names}
<1>1. Top \in Nat
  BY RollerNumbers
<1>2. free # {}
  <2> SUFFICES ASSUME free = {} PROVE FALSE
    OBVIOUS
  <2>1. Inodes \subseteq named
    OBVIOUS
  <2>2. dir \in Surjection(Names, named)
    BY DEF Disk, Surjection
  <2>3. IsFiniteSet(Names) /\ Cardinality(Names) = Top + 1
    BY <1>1, FS_Interval DEF Names
  <2>4. IsFiniteSet(named) /\ Cardinality(named) <= Cardinality(Names)
    BY <2>2, <2>3, FS_Surjection
  <2>5. Cardinality(Inodes) = Top + 2
    BY <1>1, FS_Interval DEF Inodes
  <2>6. Cardinality(Inodes) <= Cardinality(named)
    BY <2>1, <2>4, FS_Subset
  <2>7. Cardinality(named) \in Nat
    BY <2>4, FS_CardinalityType
  <2> QED BY <1>1, <2>3, <2>4, <2>5, <2>6, <2>7
<1>3. free \in SUBSET Nat
  BY <1>1 DEF Inodes
<1>4. PICK i \in free : \A j \in free : i <= j
  BY <1>2, <1>3, LeastOf
<1>5. FreeInode = Min(free)
  BY DEF FreeInode
<1> HIDE DEF free
<1>6. FreeInode \in free
  BY <1>4, <1>5 DEF Min
<1> QED BY <1>6 DEF free

LEMMA ContentsAre ==
  ASSUME Disk, NEW n \in Names
  PROVE  /\ Contents(n) \in Seq(Nat) /\ Recorded(n) \subseteq 1 .. written
         /\ dir[n] = 0 => Contents(n) = <<>> /\ Recorded(n) = {}
         /\ dir[n] # 0 => dir[n] \in Inodes /\ Contents(n) = data[dir[n]]
  BY SetOfEmpty DEF Disk, Contents, Recorded, Exists

(* The calls that change the directory.                                    *)
LEMMA UnlinkedIs ==
  ASSUME Disk, NEW k \in Names, Unlinked(k), UNCHANGED written
  PROVE  /\ Disk' /\ dir'[k] = 0 /\ Contents(k)' = <<>>
         /\ \A n \in Names \ {k} : dir'[n] = dir[n] /\ Contents(n)' = Contents(n)
<1>1. /\ dir' \in [Names -> Inodes \cup {0}] /\ dir'[k] = 0
      /\ \A n \in Names \ {k} : dir'[n] = dir[n]
  BY DEF Disk, Unlinked
<1> DEFINE e == <<>>
           Alone(i) == i = dir[k] /\ \A m \in Names \ {k} : dir[m] # i
<1>e. e \in Seq(Nat) /\ ToSet(e) = {}
  BY SetOfEmpty
<1>d. data' = IF Exists(k) /\ (\A m \in Names \ {k} : dir[m] # dir[k])
              THEN [data EXCEPT ![dir[k]] = e] ELSE data
  BY DEF Unlinked
<1> HIDE DEF e
<1>2. /\ data' \in [Inodes -> Seq(Nat)]
      /\ \A i \in Inodes : Alone(i) => data'[i] = e
      /\ \A i \in Inodes : ~Alone(i) => data'[i] = data[i]
  <2>1. CASE Exists(k) /\ \A m \in Names \ {k} : dir[m] # dir[k]
    <3>1. data' = [data EXCEPT ![dir[k]] = e] /\ dir[k] \in Inodes
      BY <1>d, <2>1 DEF Disk, Exists
    <3>2. /\ data' \in [Inodes -> Seq(Nat)] /\ data'[dir[k]] = e
          /\ \A i \in Inodes : i # dir[k] => data'[i] = data[i]
      BY <3>1, <1>e DEF Disk
    <3>3. \A i \in Inodes : Alone(i) <=> i = dir[k]
      BY <2>1
    <3> HIDE DEF Alone
    <3> QED BY <3>2, <3>3
  <2>2. CASE ~(Exists(k) /\ \A m \in Names \ {k} : dir[m] # dir[k])
    <3>1. data' = data
      BY <1>d, <2>2
    <3>2. \A i \in Inodes : ~Alone(i)
      BY <2>2, RollerNumbers DEF Exists
    <3> HIDE DEF Alone
    <3> QED BY <3>1, <3>2 DEF Disk
  <2> QED BY <2>1, <2>2
<1>3. Contents(k)' = <<>>
  BY <1>1 DEF Contents, Exists
<1>4. ASSUME NEW n \in Names \ {k} PROVE Contents(n)' = Contents(n)
  BY <1>1, <1>2 DEF Contents, Exists, Disk
<1>5. \A i \in Inodes : ToSet(data'[i]) \subseteq 1 .. written
  BY <1>2, <1>e DEF Disk
<1>6. ASSUME NEW i \in Inodes, \A n \in Names : dir'[n] # i PROVE data'[i] = <<>>
  <2>1. \A n \in Names \ {k} : dir[n] # i
    BY <1>1, <1>6
  <2>2. CASE dir[k] = i
    BY <1>2, <2>1, <2>2 DEF e
  <2>3. CASE dir[k] # i
    BY <1>2, <2>1, <2>3 DEF Disk
  <2> QED BY <2>2, <2>3
<1>7. Disk'
  BY <1>1, <1>2, <1>5, <1>6 DEF Disk, Names, Inodes
<1> QED BY <1>1, <1>3, <1>4, <1>7

LEMMA LinkedIs ==
  ASSUME Disk, NEW k \in Names, dir[k] = 0, NEW i \in Inodes \cup {0},
         dir' = [dir EXCEPT ![k] = i], UNCHANGED <<data, written>>
  PROVE  /\ Disk' /\ dir'[k] = i /\ Contents(k)' = IF i = 0 THEN <<>> ELSE data[i]
         /\ \A n \in Names \ {k} : dir'[n] = dir[n] /\ Contents(n)' = Contents(n)
<1>1. /\ dir' \in [Names -> Inodes \cup {0}] /\ dir'[k] = i
      /\ \A n \in Names \ {k} : dir'[n] = dir[n]
  BY DEF Disk
<1>2. ASSUME NEW j \in Inodes, \A n \in Names : dir'[n] # j PROVE data'[j] = <<>>
  <2>1. \A n \in Names : dir[n] # j
    BY <1>1, <1>2, RollerNumbers
  <2> QED BY <2>1 DEF Disk
<1>3. Disk'
  BY <1>1, <1>2 DEF Disk, Names, Inodes
<1> QED BY <1>1, <1>3 DEF Contents, Exists

LEMMA FreshIs ==
  ASSUME Disk, NEW k \in Names, dir[k] = 0,
         dir' = [dir EXCEPT ![k] = FreeInode], UNCHANGED <<data, written>>
  PROVE  /\ Disk' /\ dir'[k] # 0 /\ Contents(k)' = <<>>
         /\ \A n \in Names \ {k} :
              dir'[n] = dir[n] /\ dir'[n] # dir'[k] /\ Contents(n)' = Contents(n)
<1>1. FreeInode \in Inodes /\ (\A n \in Names : dir[n] # FreeInode) /\ FreeInode # 0
  BY FreeInodeIs, RollerNumbers
<1>2. data[FreeInode] = <<>>
  BY <1>1 DEF Disk
<1>3. FreeInode \in Inodes \cup {0}
  BY <1>1
<1> DEFINE i == FreeInode
<1> HIDE DEF i
<1>4. /\ Disk' /\ dir'[k] = i /\ Contents(k)' = IF i = 0 THEN <<>> ELSE data[i]
      /\ \A n \in Names \ {k} : dir'[n] = dir[n] /\ Contents(n)' = Contents(n)
  BY <1>3, LinkedIs DEF i
<1> QED BY <1>1, <1>2, <1>4 DEF i

-----------------------------------------------------------------------------
(* How the calls keep the order.                                           *)

Same(k) == \A n \in Names \ {k} : dir'[n] = dir[n] /\ Contents(n)' = Contents(n)

LEMMA EmptiedOrder ==
  ASSUME Disk, Disk', RollerOrder, UNCHANGED compression,
         NEW k \in Names, Contents(k)' = <<>>, Same(k),
         dir'[k] = 0 \/ \A n \in Names \ {k} : dir'[n] # dir'[k]
  PROVE  RollerOrder'
<1>1. Recorded(k)' = {}
  BY SetOfEmpty DEF Recorded
<1>2. \A n \in Names \ {k} : Recorded(n)' = Recorded(n)
  BY DEF Recorded, Same
<1>3. ASSUME NEW n \in Names, NEW m \in Names, n < m, Contents(n)' # <<>>, Contents(m)' # <<>>
      PROVE  Head(Contents(m)') <= Head(Contents(n)')
  BY <1>3 DEF RollerOrder, Same
<1>4. ASSUME compression = "none", NEW n \in Names, NEW m \in Names, n < m
      PROVE  dir'[n] = dir'[m] \/ Older(Recorded(m)', Recorded(n)')
  <2>1. CASE n = k \/ m = k
    BY <1>1, <2>1 DEF Older
  <2>2. CASE n # k /\ m # k
    BY <1>2, <1>4, <2>2 DEF RollerOrder, Same
  <2> QED BY <2>1, <2>2
<1>5. ASSUME NEW m \in Names \ {0}, dir'[m] # 0, dir'[m] = dir'[0]
      PROVE  Contents(0)' # <<>> /\ compression = "none"
  <2>1. m # k /\ k # 0
    BY <1>5, RollerNumbers
  <2> QED BY <1>5, <2>1, RollerNumbers DEF RollerOrder, Same
<1> QED BY <1>3, <1>4, <1>5 DEF RollerOrder, Names

LEMMA LinkedOrder ==
  ASSUME Disk, Disk', RollerOrder, UNCHANGED compression,
         NEW k \in 1 .. Top, Same(k), dir'[k] = dir[k - 1], Contents(k)' = Contents(k - 1),
         k = 1 => Contents(0) # <<>> /\ compression = "none"
  PROVE  RollerOrder'
<1>1. /\ k \in Names \ {0} /\ k - 1 \in Names \ {k} /\ k - 1 < k
      /\ \A n \in Names : n < k => n = k - 1 \/ n < k - 1
      /\ \A n \in Names : n > k => n > k - 1
  BY RollerNumbers
<1>2. /\ Recorded(k)' = Recorded(k - 1)
      /\ \A n \in Names \ {k} : Recorded(n)' = Recorded(n)
  BY DEF Recorded, Same
<1> DEFINE from(n) == IF n = k THEN k - 1 ELSE n
<1>3. /\ \A n \in Names : /\ from(n) \in Names /\ dir'[n] = dir[from(n)]
                          /\ Contents(n)' = Contents(from(n))
                          /\ Recorded(n)' = Recorded(from(n))
      /\ \A n, m \in Names : n < m => from(n) < from(m) \/ from(n) = from(m)
  <2>1. ASSUME NEW n \in Names, NEW m \in Names, n < m PROVE from(n) < from(m) \/ from(n) = from(m)
    BY <1>1, <2>1, RollerNumbers
  <2> QED BY <1>1, <1>2, <2>1 DEF Same
<1>4. \A n \in Names \ {k} : from(n) = n
  OBVIOUS
<1>5. from(k) = k - 1
  OBVIOUS
<1> HIDE DEF from
<1>6. ASSUME NEW n \in Names, NEW m \in Names, n < m, Contents(n)' # <<>>, Contents(m)' # <<>>
      PROVE  Head(Contents(m)') <= Head(Contents(n)')
  <2>1. CASE from(n) < from(m)
    BY <1>3, <1>6, <2>1 DEF RollerOrder
  <2>2. CASE from(n) = from(m)
    <3>1. Contents(n)' = Contents(from(n)) /\ Contents(m)' = Contents(from(n)) /\ from(n) \in Names
      BY <1>3, <2>2
    <3>2. Head(Contents(from(n))) \in Nat
      <4>1. Contents(from(n)) \in Seq(Nat) /\ Contents(from(n)) # <<>>
        BY <1>6, <3>1, ContentsAre
      <4> QED BY <4>1
    <3> QED BY <3>1, <3>2
  <2> QED BY <1>3, <1>6, <2>1, <2>2
<1>7. ASSUME compression = "none", NEW n \in Names, NEW m \in Names, n < m
      PROVE  dir'[n] = dir'[m] \/ Older(Recorded(m)', Recorded(n)')
  <2>1. CASE from(n) < from(m)
    BY <1>3, <1>7, <2>1 DEF RollerOrder
  <2>2. CASE from(n) = from(m)
    BY <1>3, <2>2
  <2> QED BY <1>3, <1>7, <2>1, <2>2
<1>8. ASSUME NEW m \in Names \ {0}, dir'[m] # 0, dir'[m] = dir'[0]
      PROVE  Contents(0)' # <<>> /\ compression = "none"
  <2>1. Contents(0)' = Contents(0) /\ dir'[0] = dir[0]
    BY <1>1, RollerNumbers DEF Same
  <2>2. CASE from(m) = 0
    <3>1. m = k /\ k - 1 = 0
      BY <1>4, <1>5, <1>8, <2>2
    <3> QED BY <2>1, <3>1
  <2>3. CASE from(m) # 0
    BY <1>3, <1>8, <2>1, <2>3 DEF RollerOrder
  <2> QED BY <2>2, <2>3
<1> QED BY <1>6, <1>7, <1>8 DEF RollerOrder, Names

(* Write appends a record that is newer than all others to the first file, *)
(* whatever its names are.                                                 *)
LEMMA WrittenIs0 ==
  ASSUME Disk, NEW i \in Inodes, i = IF Exists(0) THEN dir[0] ELSE FreeInode,
         written' = written + 1, dir' = [dir EXCEPT ![0] = i],
         data' = [data EXCEPT ![i] = Append(@, written')]
  PROVE  /\ Disk' /\ dir'[0] = i
         /\ \A n \in Names \ {0} : dir'[n] = dir[n]
         /\ Contents(0)' = Append(Contents(0), written + 1)
         /\ \A n \in Names : IF dir'[n] = i THEN Contents(n)' = Append(Contents(0), written + 1)
                             ELSE Contents(n)' = Contents(n)
         /\ \A n \in Names \ {0} : dir'[n] = i => dir[0] = i /\ Contents(n) = Contents(0)
<1> DEFINE w == written + 1
           a == Append(data[i], w)
<1>1. w \in Nat /\ 1 .. w = (1 .. written) \cup {w} /\ i # 0
  BY RollerNumbers DEF Disk
<1>2. a \in Seq(Nat) /\ ToSet(a) = ToSet(data[i]) \cup {w}
  <2> HIDE DEF w
  <2> QED BY <1>1, SetOfAppend DEF Disk
<1>3. data' = [data EXCEPT ![i] = a]
  OBVIOUS
<1>4. written' = w
  OBVIOUS
<1> HIDE DEF a, w
<1>5. /\ data' \in [Inodes -> Seq(Nat)] /\ data'[i] = a
      /\ \A j \in Inodes \ {i} : data'[j] = data[j]
  BY <1>2, <1>3 DEF Disk
<1>6. /\ dir' \in [Names -> Inodes \cup {0}] /\ dir'[0] = i
      /\ \A n \in Names \ {0} : dir'[n] = dir[n]
  BY RollerNumbers DEF Disk
<1>7. data[i] = Contents(0) /\ (~Exists(0) => \A n \in Names : dir[n] # i)
  <2>1. CASE Exists(0)
    BY <2>1, RollerNumbers, ContentsAre DEF Exists
  <2>2. CASE ~Exists(0)
    <3>1. \A n \in Names : dir[n] # i
      BY <2>2, FreeInodeIs
    <3> QED BY <2>2, <3>1, RollerNumbers, ContentsAre DEF Exists, Disk
  <2> QED BY <2>1, <2>2
<1>8. \A n \in Names \ {0} : dir'[n] = i => dir[0] = i /\ Contents(n) = Contents(0)
  <2> SUFFICES ASSUME NEW n \in Names \ {0}, dir'[n] = i PROVE dir[0] = i /\ Contents(n) = Contents(0)
    OBVIOUS
  <2>1. dir[n] = i /\ Exists(0)
    BY <1>6, <1>7
  <2> QED BY <1>1, <1>7, <2>1, ContentsAre DEF Exists
<1>9. ASSUME NEW n \in Names
      PROVE IF dir'[n] = i THEN Contents(n)' = a ELSE Contents(n)' = Contents(n)
  <2>1. CASE dir'[n] = i
    BY <1>1, <1>5, <2>1 DEF Contents, Exists
  <2>2. CASE dir'[n] # i
    <3>1. n # 0 /\ dir'[n] = dir[n] /\ dir[n] \in Inodes \cup {0}
      BY <1>6, <2>2 DEF Disk
    <3> QED BY <1>5, <2>2, <3>1 DEF Contents, Exists
  <2> QED BY <2>1, <2>2
<1>10. Disk'
  <2>1. \A j \in Inodes : ToSet(data'[j]) \subseteq 1 .. w
    BY <1>1, <1>2, <1>5 DEF Disk
  <2>2. ASSUME NEW j \in Inodes, \A n \in Names : dir'[n] # j PROVE data'[j] = <<>>
    <3>1. j # i /\ \A n \in Names \ {0} : dir[n] # j
      BY <1>6, <2>2, RollerNumbers
    <3>2. dir[0] # j
      BY <3>1, RollerNumbers DEF Exists
    <3> QED BY <1>5, <3>1, <3>2 DEF Disk
  <2> QED BY <1>1, <1>4, <1>5, <1>6, <2>1, <2>2 DEF Disk, Names, Inodes
<1>11. a = Append(Contents(0), written + 1)
  BY <1>7 DEF a, w
<1> QED BY <1>6, <1>8, <1>9, <1>10, <1>11, RollerNumbers

LEMMA HeadOfAppend ==
  ASSUME NEW s \in Seq(Nat), NEW x \in Nat
  PROVE  Head(Append(s, x)) = IF s = <<>> THEN x ELSE Head(s)
<1> DEFINE t == Append(s, x)
<1>1. t \in Seq(Nat) /\ t # <<>>
  BY SetOfAppend
<1>2. /\ Len(s) \in Nat /\ (Len(s) = 0 <=> s = <<>>)
      /\ t[Len(s) + 1] = x /\ \A i \in 1 .. Len(s) : t[i] = s[i]
  BY EmptySeq, AppendProperties
<1> HIDE DEF t
<1>3. Head(t) = t[1]
  BY <1>1, Ends
<1>4. CASE s = <<>>
  BY <1>2, <1>3, <1>4 DEF t
<1>5. CASE s # <<>>
  <2>1. 1 \in 1 .. Len(s) /\ Head(s) = s[1]
    BY <1>2, <1>5, Ends
  <2> QED BY <1>2, <1>3, <1>5, <2>1 DEF t
<1> QED BY <1>4, <1>5

LEMMA WriteOrder ==
  ASSUME Disk, RollerOrder, UNCHANGED compression,
         NEW i \in Inodes, i = IF Exists(0) THEN dir[0] ELSE FreeInode,
         written' = written + 1, dir' = [dir EXCEPT ![0] = i],
         data' = [data EXCEPT ![i] = Append(@, written')]
  PROVE  /\ RollerOrder'
         /\ Recorded(0)' = Recorded(0) \cup {written + 1}
         /\ \A n \in Names : Recorded(n)' = Recorded(n) \/ Recorded(n)' = Recorded(n) \cup {written + 1}
<1> DEFINE w == written + 1
           grows(n) == dir'[n] = i
<1>0. written \in Nat /\ w \in Nat /\ (\A r \in 1 .. written : r \in Nat /\ r < w) /\ i # 0
  BY RollerNumbers DEF Disk
<1>1. /\ Disk' /\ grows(0)
      /\ \A n \in Names \ {0} : dir'[n] = dir[n]
      /\ \A n \in Names : grows(n) => Contents(n)' = Append(Contents(0), w)
      /\ \A n \in Names : ~grows(n) => Contents(n)' = Contents(n)
      /\ \A n \in Names \ {0} : grows(n) => dir[0] = i /\ Contents(n) = Contents(0)
  BY WrittenIs0, RollerNumbers
<1>2. 0 \in Names /\ \A n \in Names : Contents(n) \in Seq(Nat) /\ Recorded(n) \subseteq 1 .. written
  BY RollerNumbers, ContentsAre
<1> HIDE DEF w
<1>3. \A n \in Names : grows(n) => Contents(n)' = Append(Contents(n), w)
  BY <1>1
<1>4. \A n \in Names : Recorded(n)' = IF grows(n) THEN Recorded(n) \cup {w} ELSE Recorded(n)
  BY <1>0, <1>1, <1>2, <1>3, SetOfAppend DEF Recorded
<1>5. ASSUME NEW n \in Names \ {0}, grows(n)
      PROVE  dir[n] = dir[0] /\ dir[0] = i /\ Contents(0) # <<>> /\ compression = "none"
  BY <1>0, <1>1, <1>5 DEF RollerOrder
<1>6. ASSUME NEW n \in Names \ {0}, Contents(n)' # <<>>
      PROVE  Contents(n) # <<>> /\ Head(Contents(n)') = Head(Contents(n))
  <2>1. CASE grows(n)
    <3>1. Contents(n) # <<>>
      BY <1>1, <1>5, <2>1
    <3> QED BY <1>0, <1>2, <1>3, <2>1, <3>1, HeadOfAppend
  <2> QED BY <1>1, <1>6, <2>1
<1>7. Head(Contents(0)') = IF Contents(0) = <<>> THEN w ELSE Head(Contents(0))
  BY <1>0, <1>1, <1>2, HeadOfAppend
<1>8. ASSUME NEW n \in Names, NEW m \in Names, n < m, Contents(n)' # <<>>, Contents(m)' # <<>>
      PROVE  Head(Contents(m)') <= Head(Contents(n)')
  <2>1. m \in Names \ {0}
    BY <1>8, RollerNumbers
  <2>2. CASE n # 0 \/ Contents(0) # <<>>
    <3>1. /\ Contents(n) # <<>> /\ Head(Contents(n)') = Head(Contents(n))
          /\ Contents(m) # <<>> /\ Head(Contents(m)') = Head(Contents(m))
      BY <1>6, <1>7, <1>8, <2>1, <2>2
    <3> QED BY <1>8, <3>1 DEF RollerOrder
  <2>3. CASE n = 0 /\ Contents(0) = <<>>
    <3>1. Head(Contents(m)') = Head(Contents(m)) /\ Contents(m) # <<>>
      BY <1>6, <1>8, <2>1
    <3>2. Head(Contents(m)) \in Recorded(m)
      BY <1>2, <3>1, Ends DEF Recorded
    <3>3. Head(Contents(m)) \in Nat /\ Head(Contents(m)) < w
      BY <1>0, <1>2, <3>2
    <3> QED BY <1>0, <1>7, <2>3, <3>1, <3>3
  <2> QED BY <2>2, <2>3
<1>9. ASSUME compression = "none", NEW n \in Names, NEW m \in Names, n < m
      PROVE  dir'[n] = dir'[m] \/ Older(Recorded(m)', Recorded(n)')
  <2>0. m \in Names \ {0} /\ (n # 0 => 0 < n)
    BY <1>9, RollerNumbers
  <2>1. CASE grows(m) /\ ~grows(n)
    <3>1. n # 0 /\ dir[n] # dir[0] /\ dir[m] = dir[0] /\ Contents(0) # <<>>
      BY <1>1, <1>5, <2>0, <2>1
    <3>2. Older(Recorded(n), Recorded(0)) /\ Older(Recorded(m), Recorded(n))
      BY <1>2, <1>9, <2>0, <3>1 DEF RollerOrder
    <3>3. Recorded(m) = Recorded(0) /\ \E x : x \in Recorded(0)
      BY <1>1, <1>2, <2>0, <2>1, <3>1, Ends DEF Recorded
    <3>4. ASSUME NEW y \in Recorded(n) PROVE FALSE
      <4>1. PICK x : x \in Recorded(0)
        BY <3>3
      <4>2. y < x /\ x < y /\ x \in Nat /\ y \in Nat
        BY <1>0, <1>2, <3>2, <3>3, <4>1 DEF Older
      <4> QED BY <4>2
    <3>5. Recorded(n)' = {}
      BY <1>4, <2>1, <3>4
    <3> QED BY <3>5 DEF Older
  <2>2. CASE ~grows(m) /\ grows(n)
    <3>1. Older(Recorded(m), Recorded(n))
      <4>1. CASE dir[n] = dir[m]
        <5>1. n = 0 /\ dir[0] # i
          BY <1>1, <1>5, <2>0, <2>2, <4>1
        <5>2. dir[m] = 0
          BY <4>1, <5>1 DEF Exists
        <5> QED BY <5>2, ContentsAre DEF Older
      <4> QED BY <1>9, <4>1 DEF RollerOrder
    <3> QED BY <1>0, <1>2, <1>4, <2>2, <3>1 DEF Older
  <2>3. CASE ~grows(m) /\ ~grows(n)
    <3>1. n # 0 /\ dir'[n] = dir[n] /\ dir'[m] = dir[m]
      BY <1>1, <2>0, <2>3
    <3> QED BY <1>4, <1>9, <2>3, <3>1 DEF RollerOrder
  <2> QED BY <2>1, <2>2, <2>3
<1>10. ASSUME NEW m \in Names \ {0}, dir'[m] # 0, dir'[m] = dir'[0]
       PROVE  Contents(0)' # <<>> /\ compression = "none"
  <2>1. grows(m)
    BY <1>1, <1>10
  <2>2. Contents(0)' = Append(Contents(0), w)
    BY <1>1, <1>2
  <2> QED BY <1>0, <1>2, <1>5, <2>1, <2>2, SetOfAppend
<1>11. RollerOrder'
  BY <1>8, <1>9, <1>10 DEF RollerOrder, Names
<1> QED BY <1>1, <1>2, <1>4, <1>11 DEF w

(* The newest record is in the first file.                                 *)
LEMMA WriteKept ==
  ASSUME Disk, Covered, NoGap, written' = written + 1,
         Recorded(0)' = Recorded(0) \cup {written + 1},
         \A n \in Names : Recorded(n)' = Recorded(n) \/ Recorded(n)' = Recorded(n) \cup {written + 1}
  PROVE  Covered' /\ NoGap'
<1> DEFINE w == written + 1
<1>1. /\ written \in Nat /\ w \in Nat /\ 1 .. w = (1 .. written) \cup {w}
      /\ \A r \in 1 .. written : r < w
      /\ 0 \in Names /\ (\A n \in Names : 0 <= n)
  BY RollerNumbers DEF Disk
<1>2. /\ \A n \in Names : Recorded(n) \subseteq Recorded(n)' /\ Recorded(n)' \subseteq Recorded(n) \cup {w}
      /\ w \in Recorded(0)'
      /\ \A n \in Names : Recorded(n) \subseteq 1 .. written
  BY ContentsAre
<1>3. written' = w
  OBVIOUS
<1> HIDE DEF w
<1>4. ASSUME NEW n \in Names, NEW m \in Names, n < m, NEW r \in Recorded(m)', NEW s \in Recorded(n)'
      PROVE  r < s \/ \E k \in Names : k <= n /\ r \in Recorded(k)'
  <2>1. CASE r = w
    BY <1>1, <1>2, <2>1
  <2>2. CASE r # w /\ s = w
    BY <1>1, <1>2, <2>2
  <2>3. CASE r # w /\ s # w
    <3>1. r \in Recorded(m) /\ s \in Recorded(n)
      BY <1>2, <2>3
    <3> QED BY <1>2, <1>4, <3>1 DEF Covered
  <2> QED BY <2>1, <2>2, <2>3
<1>5. ASSUME NEW n \in Names, NEW r \in Recorded(n)', NEW s \in 1 .. w, r < s
      PROVE  \E k \in Names : s \in Recorded(k)'
  <2>1. CASE s = w
    BY <1>1, <1>2, <2>1
  <2>2. CASE s # w
    <3>1. s \in 1 .. written /\ s < w
      BY <1>1, <2>2
    <3>2. r \in Recorded(n)
      BY <1>1, <1>2, <1>5, <3>1
    <3> QED BY <1>2, <1>5, <3>1, <3>2 DEF NoGap
  <2> QED BY <2>1, <2>2
<1> QED BY <1>3, <1>4, <1>5 DEF Covered, NoGap, Names

-----------------------------------------------------------------------------
(* How the calls keep what was written.                                    *)

LEMMA NothingMoved ==
  ASSUME UNCHANGED written, \A n \in Names : Recorded(n)' = Recorded(n), Covered, NoGap
  PROVE  Covered' /\ NoGap'
<1>1. Covered'
  BY DEF Covered, Names
<1>2. NoGap'
  BY DEF NoGap, Names
<1> QED BY <1>1, <1>2

(* What goes is the oldest that there is, or is at the next name too.      *)
LEMMA EmptiedKept ==
  ASSUME Disk, Covered, NoGap, UNCHANGED written,
         NEW k \in Names, Recorded(k)' = {}, \A n \in Names \ {k} : Recorded(n)' = Recorded(n),
         \/ \A n \in Names : n > k => Recorded(n) = {}
         \/ k + 1 \in Names /\ Recorded(k) \subseteq Recorded(k + 1)
  PROVE  Covered' /\ NoGap'
<1>0. Names \subseteq Nat /\ written \in Nat /\ \A n \in Names : Recorded(n) \subseteq 1 .. written
  BY RollerNumbers, ContentsAre DEF Disk
<1>1. ASSUME NEW n \in Names, NEW r, NEW s \in Recorded(n), n # k, NEW j \in Names,
             r \in Recorded(j), j <= n
      PROVE  \E i \in Names : i <= n /\ r \in Recorded(i)'
  <2>1. CASE j # k
    BY <1>1, <2>1
  <2>2. CASE j = k
    <3>1. k < n /\ k + 1 <= n /\ k + 1 # k
      BY <1>0, <1>1, <2>2
    <3>2. k + 1 \in Names /\ Recorded(k) \subseteq Recorded(k + 1)
      BY <1>1, <3>1
    <3> QED BY <1>1, <2>2, <3>1, <3>2
  <2> QED BY <2>1, <2>2
<1>2. ASSUME NEW n \in Names, NEW m \in Names, n < m, NEW r \in Recorded(m)', NEW s \in Recorded(n)'
      PROVE  r < s \/ \E j \in Names : j <= n /\ r \in Recorded(j)'
  <2>1. n # k /\ m # k /\ r \in Recorded(m) /\ s \in Recorded(n)
    BY <1>2
  <2>2. r < s \/ \E j \in Names : j <= n /\ r \in Recorded(j)
    BY <1>2, <2>1 DEF Covered
  <2> QED BY <1>1, <2>1, <2>2
<1>3. ASSUME NEW n \in Names, NEW r \in Recorded(n)', NEW s \in 1 .. written, r < s
      PROVE  \E j \in Names : s \in Recorded(j)'
  <2>1. n # k /\ r \in Recorded(n) /\ r \in Nat /\ s \in Nat
    BY <1>0, <1>3
  <2>2. PICK j \in Names : s \in Recorded(j)
    BY <1>3, <2>1 DEF NoGap
  <2>3. CASE j # k
    BY <2>2, <2>3
  <2>4. CASE j = k /\ k < n
    <3>1. k + 1 \in Names /\ Recorded(k) \subseteq Recorded(k + 1) /\ k + 1 # k
      BY <1>0, <2>1, <2>4
    <3> QED BY <2>2, <2>4, <3>1
  <2>5. CASE j = k /\ n < k
    <3>1. ~(s < r)
      BY <1>3, <2>1
    <3>2. \E i \in Names : i <= n /\ s \in Recorded(i)
      BY <2>1, <2>2, <2>5, <3>1 DEF Covered
    <3> QED BY <1>1, <2>1, <3>2
  <2> QED BY <1>0, <2>1, <2>3, <2>4, <2>5
<1>4. Covered'
  BY <1>2 DEF Covered, Names
<1>5. NoGap'
  BY <1>3 DEF NoGap, Names
<1> QED BY <1>4, <1>5

LEMMA LinkedKept ==
  ASSUME Covered, NoGap, UNCHANGED written,
         NEW k \in 1 .. Top, Recorded(k) = {}, Recorded(k)' = Recorded(k - 1),
         \A n \in Names \ {k} : Recorded(n)' = Recorded(n)
  PROVE  Covered' /\ NoGap'
<1>0. /\ k \in Names /\ k - 1 \in Names \ {k} /\ k - 1 < k
      /\ \A n \in Names : n < k => n = k - 1 \/ n < k - 1
      /\ \A n \in Names : n > k => n > k - 1
      /\ \A n, j \in Names : k = n /\ j <= k - 1 => j <= n
      /\ \A n \in Names : n <= n
  BY RollerNumbers
<1>1. \A n \in Names : Recorded(n) \subseteq Recorded(n)'
  BY <1>0
<1>2. ASSUME NEW n \in Names, NEW m \in Names, n < m, NEW r \in Recorded(m)', NEW s \in Recorded(n)'
      PROVE  r < s \/ \E j \in Names : j <= n /\ r \in Recorded(j)'
  <2>1. CASE m = k
    <3>1. r \in Recorded(k - 1) /\ n # k /\ s \in Recorded(n)
      BY <1>0, <1>2, <2>1
    <3>2. CASE n = k - 1
      BY <1>0, <1>1, <3>1, <3>2
    <3>3. CASE n < k - 1
      BY <1>0, <1>1, <3>1, <3>3 DEF Covered
    <3> QED BY <1>0, <1>2, <2>1, <3>2, <3>3
  <2>2. CASE n = k
    <3>1. r \in Recorded(m) /\ s \in Recorded(k - 1) /\ k - 1 < m
      BY <1>0, <1>2, <2>2
    <3>2. r < s \/ \E j \in Names : j <= k - 1 /\ r \in Recorded(j)
      BY <1>0, <3>1 DEF Covered
    <3> QED BY <1>0, <1>1, <2>2, <3>2
  <2>3. CASE n # k /\ m # k
    <3>1. r \in Recorded(m) /\ s \in Recorded(n)
      BY <1>2, <2>3
    <3> QED BY <1>1, <1>2, <3>1 DEF Covered
  <2> QED BY <2>1, <2>2, <2>3
<1>3. ASSUME NEW n \in Names, NEW r \in Recorded(n)', NEW s \in 1 .. written, r < s
      PROVE  \E j \in Names : s \in Recorded(j)'
  <2>1. \E m \in Names : r \in Recorded(m)
    BY <1>0, <1>3
  <2> QED BY <1>1, <1>3, <2>1 DEF NoGap
<1>4. Covered'
  BY <1>2 DEF Covered, Names
<1>5. NoGap'
  BY <1>3 DEF NoGap, Names
<1> QED BY <1>4, <1>5

(* A copy of the first file has nothing that the first file has not.       *)
LEMMA CopiedKept ==
  ASSUME Covered, NoGap, UNCHANGED written, 1 \in Names,
         Recorded(1) \subseteq Recorded(0), Recorded(1)' \subseteq Recorded(0),
         \A n \in Names \ {1} : Recorded(n)' = Recorded(n)
  PROVE  Covered' /\ NoGap'
<1>0. 0 \in Names /\ (\A n \in Names : 0 <= n /\ (n < 1 => n = 0) /\ (1 < n => 0 < n)) /\ Recorded(0)' = Recorded(0)
  BY RollerNumbers
<1>1. ASSUME NEW r, NEW j \in Names, r \in Recorded(j)
      PROVE  r \in Recorded(j)' \/ r \in Recorded(0)'
  BY <1>0, <1>1
<1>2. ASSUME NEW n \in Names, NEW m \in Names, n < m, NEW r \in Recorded(m)', NEW s \in Recorded(n)'
      PROVE  r < s \/ \E j \in Names : j <= n /\ r \in Recorded(j)'
  <2>1. CASE r \in Recorded(0)
    BY <1>0, <2>1
  <2>2. CASE r \notin Recorded(0)
    <3>1. m # 1 /\ r \in Recorded(m)
      BY <1>2, <2>2
    <3>2. CASE n = 1
      <4>1. s \in Recorded(0) /\ 0 < m
        BY <1>0, <1>2, <3>2
      <4>2. r < s \/ \E j \in Names : j <= 0 /\ r \in Recorded(j)
        BY <1>0, <3>1, <4>1 DEF Covered
      <4>3. \A j \in Names : j <= 0 => j = 0
        BY <1>0, RollerNumbers
      <4> QED BY <2>2, <4>2, <4>3
    <3>3. CASE n # 1
      <4>1. r < s \/ \E j \in Names : j <= n /\ r \in Recorded(j)
        BY <1>2, <3>1, <3>3 DEF Covered
      <4> QED BY <1>0, <1>1, <4>1
    <3> QED BY <3>2, <3>3
  <2> QED BY <2>1, <2>2
<1>3. ASSUME NEW n \in Names, NEW r \in Recorded(n)', NEW s \in 1 .. written, r < s
      PROVE  \E j \in Names : s \in Recorded(j)'
  <2>1. \E m \in Names : r \in Recorded(m)
    BY <1>0, <1>3
  <2>2. \E j \in Names : s \in Recorded(j)
    BY <1>3, <2>1 DEF NoGap
  <2> QED BY <1>0, <1>1, <2>2
<1>4. Covered'
  BY <1>2 DEF Covered, Names
<1>5. NoGap'
  BY <1>3 DEF NoGap, Names
<1> QED BY <1>4, <1>5

(* A call that fails, and a number that is changed, are not forgotten.     *)
LEMMA QuietBefore ==
  ASSUME RollerTyping, [Next]_vars
  PROVE  (Quiet' => Quiet) /\ budget' \in Budgets /\ pc' \in Places
<1>0. budget \in Budgets /\ Faults \in Nat /\ Crashes \in Nat /\ Changes \in Nat
  BY RollerNumbers DEF RollerTyping
<1>1. \/ budget' = budget
      \/ budget.faults > 0 /\ budget' = [budget EXCEPT !.faults = @ - 1]
      \/ budget.crashes > 0 /\ budget' = [budget EXCEPT !.crashes = @ - 1]
      \/ budget.changes > 0 /\ budget' = [budget EXCEPT !.changes = @ - 1]
  BY DEF Next, Write, SetNumFiles, RollFiles, Unlink, Link, OpenCompressed, Copy, UnlinkFirst,
         Create, Crash, Fail, vars
<1>2. cut' = cut \/ \E b \in BOOLEAN : cut' = (cut \/ b)
  BY DEF Next, Write, SetNumFiles, RollFiles, Unlink, Link, OpenCompressed, Copy, UnlinkFirst,
         Create, Crash, vars
<1>3. (Quiet' => Quiet) /\ budget' \in Budgets
  <2>1. ~cut' => ~cut
    BY <1>2
  <2>2. /\ budget'.faults = Faults => budget.faults = Faults
        /\ budget'.changes = Changes => budget.changes = Changes
        /\ budget' \in Budgets
    BY <1>0, <1>1 DEF Budgets
  <2> QED BY <2>1, <2>2 DEF Quiet
<1>4. pc' \in Places
  <2>1. \/ pc' = pc
        \/ pc' = [at |-> "idle", name |-> 0]
        \/ pc' = [at |-> "first", name |-> 0]
        \/ pc' = [at |-> "unlink", name |-> numFiles]
        \/ pc' = [at |-> "unlink", name |-> pc.name - 1]
        \/ \E a \in {"compress", "link", "copy", "create"} : pc' = [pc EXCEPT !.at = a]
    BY DEF Next, Write, SetNumFiles, RollFiles, Unlink, Link, OpenCompressed, Copy, UnlinkFirst,
           Create, Crash, vars, Idle, Broken, NextName
  <2>2. pc \in Places /\ numFiles \in Int
    BY RollerNumbers DEF RollerTyping
  <2> QED BY <2>1, <2>2 DEF Places
<1> QED BY <1>3, <1>4

-----------------------------------------------------------------------------
(* The buffers that are compressed.                                        *)

LEMMA MinOfTwo ==
  ASSUME NEW a \in Nat, NEW b \in Nat
  PROVE  Min({a, b}) = IF a <= b THEN a ELSE b
<1>1. \E x \in {a, b} : \A y \in {a, b} : x <= y
  OBVIOUS
<1>2. Min({a, b}) \in {a, b} /\ \A y \in {a, b} : Min({a, b}) <= y
  BY <1>1 DEF Min
<1> QED BY <1>2

LEMMA PrefixIs ==
  ASSUME NEW s \in Seq(Nat), NEW n \in 0 .. Len(s)
  PROVE  /\ SubSeq(s, 1, n) \in Seq(Nat) /\ Len(SubSeq(s, 1, n)) = n
         /\ ToSet(SubSeq(s, 1, n)) \subseteq ToSet(s)
         /\ SubSeq(s, 1, n) # <<>> => s # <<>> /\ Head(SubSeq(s, 1, n)) = Head(s)
<1> DEFINE t == SubSeq(s, 1, n)
           u == SubSeq(s, n + 1, Len(s))
<1>1. t \in Seq(Nat) /\ Len(t) = n /\ u \in Seq(Nat) /\ t \o u = s
  BY Halves
<1> HIDE DEF t, u
<1>2. ToSet(t) \subseteq ToSet(s)
  BY <1>1, SetOfConcat
<1>3. ASSUME t # <<>> PROVE s # <<>> /\ Head(t) = Head(s)
  <2>1. n \in Nat \ {0} /\ Head(t) = t[1]
    BY <1>1, <1>3, Ends
  <2>2. s # <<>>
    BY <2>1, EmptySeq
  <2>3. Len(u) \in Nat /\ 1 \in 1 .. Len(t) + Len(u) /\ 1 <= Len(t)
    BY <1>1, <2>1, SetOf
  <2>4. \A i \in 1 .. Len(t) + Len(u) : (t \o u)[i] = IF i <= Len(t) THEN t[i] ELSE u[i - Len(t)]
    BY <1>1, ConcatProperties
  <2>5. (t \o u)[1] = t[1]
    BY <2>3, <2>4
  <2> QED BY <1>1, <2>1, <2>2, <2>5, Ends
<1> QED BY <1>1, <1>2, <1>3 DEF t

(* What a buffer adds to the copy.                                         *)
LEMMA BufferIs ==
  ASSUME NEW s \in Seq(Nat), NEW done \in 0 .. Len(s)
  PROVE  LET end == Min({done + BlockSize, Len(s)})
             buffered == SubSeq(s, done + 1, end)
         IN  /\ end \in done .. Len(s)
             /\ SubSeq(s, 1, done) \o buffered = SubSeq(s, 1, end)
             /\ buffered = <<>> => end = Len(s)
             /\ Len(s) <= done + BlockSize => end = Len(s)
<1> DEFINE end == Min({done + BlockSize, Len(s)})
           buffered == SubSeq(s, done + 1, end)
<1>0. Len(s) \in Nat /\ BlockSize \in Nat \ {0} /\ (\A i \in 1 .. Len(s) : s[i] \in Nat)
  BY SetOf, RollerNumbers
<1>1. end = IF done + BlockSize <= Len(s) THEN done + BlockSize ELSE Len(s)
  <2>1. done + BlockSize \in Nat
    BY <1>0
  <2> QED BY <1>0, <2>1, MinOfTwo
<1> HIDE DEF end
<1>2. end \in done .. Len(s) /\ (Len(s) <= done + BlockSize => end = Len(s))
      /\ (end = done => done = Len(s))
  BY <1>0, <1>1
<1>3. SubSeq(s, 1, done) \o buffered = SubSeq(s, 1, end)
  <2>1. 1 \in 1 .. Len(s) + 1 /\ done \in 1 - 1 .. Len(s) /\ end \in done .. Len(s)
    BY <1>0, <1>2
  <2> QED BY <2>1, ConcatAdjacentSubSeq
<1>4. buffered \in Seq(Nat)
  <2>1. \A i \in done + 1 .. end : s[i] \in Nat
    BY <1>0, <1>2
  <2> QED BY <1>0, <1>2, <2>1, SubSeqProperties
<1>5. ASSUME buffered = <<>> PROVE end = Len(s)
  <2> DEFINE a == SubSeq(s, 1, done)
             b == SubSeq(s, 1, end)
  <2>1. a \in Seq(Nat) /\ Len(a) = done /\ b \in Seq(Nat) /\ Len(b) = end
    <3>1. end \in 0 .. Len(s)
      BY <1>0, <1>2
    <3> QED BY <3>1, PrefixIs
  <2>2. a \o buffered = b
    BY <1>3
  <2> HIDE DEF a, b, buffered
  <2>3. a \o buffered = a
    BY <1>5, <2>1
  <2> QED BY <1>2, <2>1, <2>2, <2>3
<1> QED BY <1>2, <1>3, <1>5 DEF end

LEMMA CopyIs ==
  ASSUME RollerInv, Copy
  PROVE  /\ pc.at = "copy" /\ compression # "none" /\ numFiles >= 1 /\ 1 \in Names
         /\ UNCHANGED <<numFiles, compression, dir, written>>
         /\ \/ Fail /\ pc' = Broken /\ UNCHANGED <<data, cut>>
            \/ /\ Disk' /\ \A n \in Names \ {1} : Contents(n)' = Contents(n)
               /\ \E end \in 0 .. Len(Contents(0)) : Contents(1)' = SubSeq(Contents(0), 1, end)
               /\ \/ pc' = pc /\ compression # "gzip"
                  \/ pc' = Broken /\ (~cut' => Contents(1)' = Contents(0))
<1> DEFINE c == Contents(0)
           done == Len(Contents(1))
           end == Min({done + BlockSize, Len(c)})
           buffered == SubSeq(c, done + 1, end)
           t == SubSeq(c, 1, end)
<1>0. Disk /\ RollerTyping /\ RollerPlace
  BY DEF RollerInv, RollerTyping
<1>1. /\ pc.at = "copy" /\ UNCHANGED <<numFiles, compression, dir, written>>
      /\ numFiles >= 1 /\ compression # "none" /\ numFiles \in 0 .. Top
      /\ dir[1] # 0 /\ \A n \in Names \ {1} : dir[n] # dir[1]
      /\ done <= Len(c) /\ Contents(1) = SubSeq(c, 1, done)
      /\ compression = "gzip" => Contents(1) = <<>>
  BY <1>0 DEF Copy, RollerPlace, RollerTyping
<1>2. 0 \in Names \ {1} /\ 1 \in Names /\ c \in Seq(Nat) /\ Contents(1) \in Seq(Nat) /\ dir[1] \in Inodes
      /\ Contents(1) = data[dir[1]]
  <2>1. 0 \in Names \ {1} /\ 1 \in Names
    BY <1>1, RollerNumbers
  <2> QED BY <1>0, <1>1, <2>1, ContentsAre
<1>3. Len(c) \in Nat /\ done \in 0 .. Len(c) /\ (compression = "gzip" => done = 0)
  BY <1>1, <1>2, SetOf, EmptySeq
<1>4. /\ end \in 0 .. Len(c) /\ Contents(1) \o buffered = t
      /\ buffered = <<>> => end = Len(c)
      /\ Len(c) <= done + BlockSize => end = Len(c)
  <2>1. /\ end \in done .. Len(c) /\ SubSeq(c, 1, done) \o buffered = t
        /\ buffered = <<>> => end = Len(c)
        /\ Len(c) <= done + BlockSize => end = Len(c)
    BY <1>2, <1>3, BufferIs
  <2>2. end \in 0 .. Len(c)
    BY <1>3, <2>1
  <2> QED BY <1>1, <2>1, <2>2
<1>5. t \in Seq(Nat) /\ ToSet(t) \subseteq ToSet(c) /\ (end = Len(c) => t = c)
  BY <1>2, <1>4, PrefixIs, SubSeqFull
<1>6. CASE /\ data' = [data EXCEPT ![dir[1]] = @ \o buffered]
           /\ pc' = IF compression = "gzip" \/ buffered = <<>> THEN Broken ELSE pc
           /\ cut' = (cut \/ (compression = "gzip" /\ Len(c) > BlockSize))
  <2>1. data' = [data EXCEPT ![dir[1]] = t]
    BY <1>2, <1>4, <1>6
  <2>t. t = SubSeq(c, 1, end)
    OBVIOUS
  <2> HIDE DEF t
  <2>2. /\ data' \in [Inodes -> Seq(Nat)] /\ data'[dir[1]] = t
        /\ \A i \in Inodes : i # dir[1] => data'[i] = data[i]
    BY <1>0, <1>2, <1>5, <2>1 DEF Disk
  <2>3. Contents(1)' = t
    BY <1>1, <2>2 DEF Contents, Exists
  <2>4. ASSUME NEW n \in Names \ {1} PROVE Contents(n)' = Contents(n)
    BY <1>0, <1>1, <2>2 DEF Contents, Exists, Disk
  <2>5. Disk'
    <3>1. ToSet(t) \subseteq 1 .. written
      BY <1>0, <1>2, <1>5, ContentsAre DEF Recorded
    <3>2. \A i \in Inodes : ToSet(data'[i]) \subseteq 1 .. written
      BY <1>0, <2>2, <3>1 DEF Disk
    <3>3. \A i \in Inodes : (\A n \in Names : dir[n] # i) => data'[i] = <<>>
      BY <1>0, <1>2, <2>2 DEF Disk
    <3> QED BY <1>0, <1>1, <2>2, <3>2, <3>3 DEF Disk, Names, Inodes
  <2>6. ASSUME compression = "gzip" \/ buffered = <<>>, ~cut' PROVE t = c
    <3>1. compression = "gzip" => ~(Len(c) > BlockSize)
      BY <1>6, <2>6
    <3>2. compression = "gzip" => Len(c) <= done + BlockSize
      BY <1>3, <3>1, RollerNumbers
    <3> QED BY <1>4, <1>5, <2>6, <3>2
  <2>7. \/ pc' = pc /\ compression # "gzip"
        \/ pc' = Broken /\ (~cut' => t = c)
    BY <1>6, <2>6
  <2> QED BY <1>1, <1>2, <1>4, <2>t, <2>3, <2>4, <2>5, <2>7
<1>7. CASE Fail /\ pc' = Broken /\ UNCHANGED <<data, cut>>
  BY <1>1, <1>2, <1>7
<1> QED BY <1>6, <1>7 DEF Copy

-----------------------------------------------------------------------------
(* All steps.                                                              *)

LEMMA RollerInit == Init => RollerInv
<1> SUFFICES ASSUME Init PROVE RollerInv
  OBVIOUS
<1> DEFINE e == <<>>
<1>e. e \in Seq(Nat) /\ ToSet(e) = {}
  BY SetOfEmpty
<1>1. /\ numFiles \in 0 .. Top /\ compression \in {"none", "gzip", "bzip2"}
      /\ dir = [n \in Names |-> 0] /\ data = [i \in Inodes |-> e]
      /\ pc = [at |-> "idle", name |-> 0] /\ written = 0
      /\ budget = [faults |-> Faults, crashes |-> Crashes, changes |-> Changes]
  BY DEF Init, Idle
<1>2. Disk
  <2>1. \A i \in Inodes : data[i] = e
    BY <1>1
  <2>2. data \in [Inodes -> Seq(Nat)] /\ \A i \in Inodes : ToSet(data[i]) \subseteq 1 .. written
    <3> HIDE DEF e
    <3> QED BY <1>1, <1>e
  <2> QED BY <1>1, <2>1, <2>2 DEF Disk
<1>3. \A n \in Names : Contents(n) = <<>> /\ Recorded(n) = {} /\ dir[n] = 0
  BY <1>1, <1>2, ContentsAre
<1>4. RollerTyping
  BY <1>1, <1>2, RollerNumbers DEF RollerTyping, Places, Budgets
<1>5. RollerOrder
  BY <1>1, <1>3 DEF RollerOrder
<1>6. RollerPlace
  BY <1>1 DEF RollerPlace
<1>7. RollerKept
  BY <1>1, <1>3 DEF RollerKept, Covered, NoGap
<1> QED BY <1>4, <1>5, <1>6, <1>7 DEF RollerInv

(* RollFiles() ends or stops short, and the files stay as they are.        *)
LEMMA HaltedStep ==
  ASSUME RollerInv, UNCHANGED <<compression, dir, data, written>>,
         numFiles' \in 0 .. Top, budget' \in Budgets, pc' \in Places,
         pc'.at \in {"idle", "first"},
         Quiet' => Quiet /\ numFiles' = numFiles,
         Quiet' /\ pc'.at = "first" => numFiles = 0 \/ Recorded(0) = {}
  PROVE  RollerInv'
<1>0. Disk /\ RollerTyping /\ RollerOrder /\ RollerKept
  BY DEF RollerInv, RollerTyping
<1>1. \A n \in Names : Contents(n)' = Contents(n) /\ Recorded(n)' = Recorded(n)
  BY DEF Contents, Exists, Recorded
<1>2. Disk'
  BY <1>0 DEF Disk, Names, Inodes
<1>3. RollerTyping'
  BY <1>0, <1>2 DEF RollerTyping
<1>4. RollerOrder'
  BY <1>0, <1>1, RollerNumbers DEF RollerOrder, Names
<1>5. RollerPlace'
  BY DEF RollerPlace
<1>6. RollerKept'
  <2> SUFFICES ASSUME Quiet, numFiles' = numFiles, pc'.at = "first" => numFiles = 0 \/ Recorded(0) = {}
               PROVE  /\ \A n \in Names : n > numFiles => dir[n] = 0
                      /\ pc'.at = "first" /\ numFiles >= 1 => Recorded(0)' \subseteq Recorded(1)'
                      /\ Covered' /\ NoGap'
    BY DEF RollerKept, Names
  <2>1. Covered' /\ NoGap'
    BY <1>0, <1>1, NothingMoved DEF RollerKept
  <2>2. pc'.at = "first" /\ numFiles >= 1 => Recorded(0)' = {}
    BY <1>1, RollerNumbers
  <2> QED BY <1>0, <2>1, <2>2 DEF RollerKept
<1> QED BY <1>3, <1>4, <1>5, <1>6 DEF RollerInv

LEMMA RollerFailNoted == ASSUME RollerTyping, Fail PROVE ~Quiet'
<1>1. budget.faults \in 0 .. Faults /\ budget'.faults = budget.faults - 1
  BY DEF RollerTyping, Budgets, Fail
<1> QED BY <1>1, RollerNumbers DEF Quiet

LEMMA CopyStep ==
  ASSUME RollerInv, Copy, (Quiet' => Quiet), budget' \in Budgets, pc' \in Places
  PROVE  RollerInv'
<1> DEFINE c == Contents(0)
           d == Contents(1)'
<1>0. Disk /\ RollerTyping /\ RollerOrder /\ RollerPlace /\ RollerKept
  BY DEF RollerInv, RollerTyping
<1>1. /\ pc.at = "copy" /\ compression # "none" /\ numFiles >= 1 /\ 1 \in Names /\ 0 \in Names \ {1}
      /\ UNCHANGED <<numFiles, compression, dir, written>>
  BY CopyIs, RollerNumbers
<1>2. CASE Fail /\ pc' = Broken /\ UNCHANGED <<data, cut>>
  BY <1>0, <1>1, <1>2, RollerFailNoted, HaltedStep DEF Broken, RollerTyping
<1>3. CASE /\ Disk' /\ \A n \in Names \ {1} : Contents(n)' = Contents(n)
           /\ \E end \in 0 .. Len(c) : d = SubSeq(c, 1, end)
           /\ \/ pc' = pc /\ compression # "gzip"
              \/ pc' = Broken /\ (~cut' => d = c)
  <2>1. c \in Seq(Nat) /\ Len(c) \in Nat /\ Contents(0)' = c
    BY <1>0, <1>1, <1>3, ContentsAre, SetOf
  <2>2. PICK end \in 0 .. Len(c) : d = SubSeq(c, 1, end)
    BY <1>3
  <2>3. /\ Len(d) = end /\ ToSet(d) \subseteq ToSet(c)
        /\ d # <<>> => c # <<>> /\ Head(d) = Head(c)
    BY <2>1, <2>2, PrefixIs
  <2> HIDE DEF c, d
  <2>4. Recorded(1)' \subseteq Recorded(0) /\ \A n \in Names \ {1} : Recorded(n)' = Recorded(n)
    BY <1>3, <2>3 DEF Recorded, c, d
  <2>5. RollerOrder'
    <3>0. /\ \A n, m \in Names : n < m => n = 0 \/ (m # 0 /\ 0 < m)
          /\ \A m \in Names : m # 0 => 0 < m
          /\ ~(0 < 0)
      BY RollerNumbers
    <3>1. ASSUME NEW n \in Names, NEW m \in Names, n < m, Contents(n)' # <<>>, Contents(m)' # <<>>
          PROVE  Head(Contents(m)') <= Head(Contents(n)')
      <4>1. CASE n # 1 /\ m # 1
        BY <1>0, <1>3, <3>1, <4>1 DEF RollerOrder
      <4>2. CASE n = 1
        <5>1. m # 1 /\ 0 < m /\ c # <<>> /\ Head(Contents(1)') = Head(c) /\ Contents(m)' = Contents(m)
          BY <1>3, <2>3, <3>0, <3>1, <4>2 DEF d
        <5> QED BY <1>0, <1>1, <3>1, <4>2, <5>1 DEF RollerOrder, c
      <4>3. CASE m = 1
        <5>1. n = 0 /\ c # <<>> /\ Head(Contents(1)') = Head(c) /\ Contents(0)' = c
          BY <2>1, <2>3, <3>1, <4>3, RollerNumbers DEF d
        <5>2. Head(c) \in Nat
          BY <2>1, <5>1
        <5> QED BY <4>3, <5>1, <5>2
      <4> QED BY <4>1, <4>2, <4>3
    <3>2. compression # "none" /\ \A m \in Names \ {0} : ~(dir'[m] # 0 /\ dir'[m] = dir'[0])
      BY <1>0, <1>1 DEF RollerOrder
    <3> QED BY <1>1, <3>1, <3>2 DEF RollerOrder, Names
  <2>6. RollerPlace'
    <3>1. CASE pc' = Broken
      BY <3>1 DEF RollerPlace, Broken
    <3>2. CASE pc' = pc /\ compression # "gzip"
      <4>1. dir[1] # 0 /\ \A n \in Names \ {1} : dir[n] # dir[1]
        BY <1>0, <1>1 DEF RollerPlace
      <4>2. Len(d) <= Len(c) /\ d = SubSeq(c, 1, Len(d))
        BY <2>1, <2>2, <2>3
      <4>3. Contents(1)' = d /\ Contents(0)' = c
        BY <2>1 DEF d
      <4> QED BY <1>1, <3>2, <4>1, <4>2, <4>3 DEF RollerPlace, Names
    <3> QED BY <1>3, <3>1, <3>2
  <2>7. RollerTyping'
    BY <1>0, <1>1, <1>3 DEF RollerTyping
  <2>8. RollerKept'
    <3> SUFFICES ASSUME Quiet, ~cut'
                 PROVE  /\ \A n \in Names : n > numFiles => dir[n] = 0
                        /\ pc'.at # "unlink"
                        /\ pc'.at = "first" => Recorded(0)' \subseteq Recorded(1)'
                        /\ Covered' /\ NoGap'
      BY <1>1 DEF RollerKept, Quiet, Names
    <3>1. Recorded(1) \subseteq Recorded(0)
      <4>1. Contents(1) = SubSeq(c, 1, Len(Contents(1))) /\ Len(Contents(1)) <= Len(c)
        BY <1>0, <1>1 DEF RollerPlace, c
      <4>2. Len(Contents(1)) \in 0 .. Len(c)
        BY <1>0, <1>1, <2>1, <4>1, ContentsAre, SetOf
      <4> QED BY <2>1, <4>1, <4>2, PrefixIs DEF Recorded, c
    <3>2. Covered' /\ NoGap'
      BY <1>0, <1>1, <2>4, <3>1, CopiedKept DEF RollerKept
    <3>3. pc'.at # "unlink"
      BY <1>1, <1>3 DEF Broken
    <3>4. ASSUME pc'.at = "first" PROVE Recorded(0)' = Recorded(1)'
      <4>1. d = c
        BY <1>1, <1>3, <3>4 DEF c, d
      <4> QED BY <2>1, <4>1 DEF Recorded, d
    <3> QED BY <1>0, <3>2, <3>3, <3>4 DEF RollerKept
  <2> QED BY <2>5, <2>6, <2>7, <2>8 DEF RollerInv
<1> QED BY <1>1, <1>2, <1>3, CopyIs

LEMMA WriteStep ==
  ASSUME RollerInv, Write, budget' \in Budgets, pc' \in Places
  PROVE  RollerInv'
<1>0. Disk /\ RollerTyping /\ RollerOrder /\ RollerKept
  BY DEF RollerInv, RollerTyping
<1> DEFINE i == IF Exists(0) THEN dir[0] ELSE FreeInode
<1>1. /\ i \in Inodes /\ written' = written + 1 /\ dir' = [dir EXCEPT ![0] = i]
      /\ data' = [data EXCEPT ![i] = Append(@, written')]
      /\ pc.at = "idle" /\ UNCHANGED <<numFiles, compression, pc, cut, budget>>
  <2>1. i \in Inodes
    BY <1>0, FreeInodeIs, RollerNumbers DEF Disk, Exists
  <2> QED BY <2>1 DEF Write, Idle
<1>2. /\ RollerOrder'
      /\ Recorded(0)' = Recorded(0) \cup {written + 1}
      /\ \A n \in Names : Recorded(n)' = Recorded(n) \/ Recorded(n)' = Recorded(n) \cup {written + 1}
  BY <1>0, <1>1, WriteOrder
<1>3. Disk' /\ \A n \in Names \ {0} : dir'[n] = dir[n]
  BY <1>0, <1>1, WrittenIs0
<1> HIDE DEF i
<1>4. RollerTyping'
  BY <1>0, <1>1, <1>3 DEF RollerTyping
<1>5. RollerPlace'
  BY <1>1 DEF RollerPlace
<1>6. RollerKept'
  <2> SUFFICES ASSUME Quiet
               PROVE  (\A n \in Names : n > numFiles => dir'[n] = 0) /\ Covered' /\ NoGap'
    BY <1>1 DEF RollerKept, Quiet, Names
  <2>1. Covered' /\ NoGap'
    BY <1>0, <1>1, <1>2, WriteKept DEF RollerKept
  <2>2. numFiles \in 0 .. Top
    BY <1>0 DEF RollerTyping
  <2>3. \A n \in Names : n > numFiles => n # 0
    BY <2>2, RollerNumbers
  <2> QED BY <1>0, <1>3, <2>1, <2>3 DEF RollerKept
<1> QED BY <1>2, <1>4, <1>5, <1>6 DEF RollerInv

LEMMA UnlinkStep ==
  ASSUME RollerInv, Unlink, Quiet' => Quiet, budget' \in Budgets, pc' \in Places
  PROVE  RollerInv'
<1>0. Disk /\ RollerTyping /\ RollerOrder /\ RollerPlace /\ RollerKept
  BY DEF RollerInv, RollerTyping
<1>k. PICK k \in 1 .. numFiles : k = pc.name
  BY <1>0 DEF Unlink, RollerPlace
<1>1. /\ pc.at = "unlink" /\ k \in 1 .. numFiles /\ numFiles \in 0 .. Top /\ Contents(0) # <<>>
      /\ UNCHANGED <<numFiles, compression, written, cut>>
  BY <1>0, <1>k DEF Unlink, RollerPlace, RollerTyping
<1>2. k \in 1 .. Top /\ k \in Names \ {0} /\ numFiles >= 1
  BY <1>1, RollerNumbers
<1>3. CASE Exists(k) /\ Fail /\ rc' = FALSE /\ pc' = Broken /\ UNCHANGED <<dir, data>>
  BY <1>0, <1>1, <1>3, RollerFailNoted, HaltedStep DEF Broken
<1>4. CASE /\ Unlinked(k) /\ UNCHANGED <<rc, budget>>
           /\ pc' = [pc EXCEPT !.at = IF k = 1 /\ compression # "none" THEN "compress" ELSE "link"]
  <2>1. /\ Disk' /\ dir'[k] = 0 /\ Contents(k)' = <<>> /\ Same(k)
    BY <1>0, <1>1, <1>2, <1>4, UnlinkedIs DEF Same
  <2>2. pc'.name = k /\ pc'.at = IF k = 1 /\ compression # "none" THEN "compress" ELSE "link"
    BY <1>0, <1>k, <1>4 DEF RollerTyping, Places
  <2>3. RollerOrder'
    BY <1>0, <1>1, <1>2, <2>1, EmptiedOrder
  <2>4. RollerTyping'
    BY <1>0, <1>1, <2>1 DEF RollerTyping
  <2>5. Contents(0)' = Contents(0)
    BY <1>2, <2>1, RollerNumbers DEF Same
  <2>6. RollerPlace'
    BY <1>1, <1>2, <2>1, <2>2, <2>5 DEF RollerPlace
  <2>7. RollerKept'
    <3> SUFFICES ASSUME Quiet
                 PROVE  (\A n \in Names : n > numFiles => dir'[n] = 0) /\ Covered' /\ NoGap'
      BY <1>1, <2>2 DEF RollerKept, Names
    <3>1. Recorded(k)' = {} /\ \A n \in Names \ {k} : Recorded(n)' = Recorded(n)
      BY <2>1, SetOfEmpty DEF Recorded, Same
    <3>2. \A n \in Names : n > numFiles => dir[n] = 0 /\ n # k
      BY <1>0, <1>1, RollerNumbers DEF RollerKept
    <3>3. \/ \A n \in Names : n > k => Recorded(n) = {}
          \/ k + 1 \in Names /\ Recorded(k) \subseteq Recorded(k + 1)
      <4>1. CASE k = numFiles
        BY <1>0, <3>2, <4>1, ContentsAre
      <4>2. CASE k < numFiles
        <5>1. k + 1 \in Names
          BY <1>1, <4>2, RollerNumbers
        <5>2. dir[k + 1] = dir[k]
          BY <1>0, <1>k, <1>1, <4>2 DEF RollerKept
        <5> QED BY <5>1, <5>2 DEF Recorded, Contents, Exists
      <4> QED BY <1>1, <4>1, <4>2
    <3>4. Covered' /\ NoGap'
      BY <1>0, <1>1, <1>2, <3>1, <3>3, EmptiedKept DEF RollerKept
    <3> QED BY <2>1, <3>2, <3>4 DEF Same
  <2> QED BY <2>3, <2>4, <2>6, <2>7 DEF RollerInv
<1> QED BY <1>k, <1>3, <1>4 DEF Unlink

LEMMA LinkStep ==
  ASSUME RollerInv, Link, Quiet' => Quiet, budget' \in Budgets, pc' \in Places
  PROVE  RollerInv'
<1>0. Disk /\ RollerTyping /\ RollerOrder /\ RollerPlace /\ RollerKept
  BY DEF RollerInv, RollerTyping
<1>k. PICK k \in 1 .. numFiles : k = pc.name
  BY <1>0 DEF Link, RollerPlace
<1>1. /\ pc.at = "link" /\ k \in 1 .. numFiles /\ numFiles \in 0 .. Top /\ Contents(0) # <<>>
      /\ dir[k] = 0 /\ (k = 1 => compression = "none")
      /\ UNCHANGED <<numFiles, compression, data, written, cut>>
  BY <1>0, <1>k DEF Link, RollerPlace, RollerTyping
<1>2. k \in 1 .. Top /\ k \in Names \ {0} /\ k - 1 \in Names \ {k} /\ numFiles >= 1
  BY <1>1, RollerNumbers
<1>3. CASE Exists(k - 1) /\ Fail /\ rc' = FALSE /\ pc' = Broken /\ UNCHANGED dir
  BY <1>0, <1>1, <1>3, RollerFailNoted, HaltedStep DEF Broken
<1>4. CASE /\ dir' = [dir EXCEPT ![k] = dir[k - 1]] /\ pc' = NextName(k) /\ UNCHANGED <<rc, budget>>
  <2>1. /\ Disk' /\ dir'[k] = dir[k - 1] /\ Contents(k)' = Contents(k - 1) /\ Same(k)
    <3>1. dir[k - 1] \in Inodes \cup {0}
      BY <1>0, <1>2 DEF Disk
    <3>2. Contents(k - 1) = IF dir[k - 1] = 0 THEN <<>> ELSE data[dir[k - 1]]
      BY DEF Contents, Exists
    <3> QED BY <1>0, <1>1, <1>2, <1>4, <3>1, <3>2, LinkedIs DEF Same
  <2>2. /\ k = 1 => pc'.at = "first"
        /\ k # 1 => pc'.at = "unlink" /\ pc'.name = k - 1 /\ k - 1 \in 1 .. numFiles
    <3>1. k # 1 => k - 1 \in 1 .. numFiles
      BY <1>1
    <3> QED BY <1>4, <3>1 DEF NextName, Broken
  <2>3. RollerOrder'
    BY <1>0, <1>1, <1>2, <2>1, LinkedOrder
  <2>4. RollerTyping'
    BY <1>0, <1>1, <2>1 DEF RollerTyping
  <2>5. Contents(0)' = Contents(0)
    BY <1>2, <2>1, RollerNumbers DEF Same
  <2>6. RollerPlace'
    BY <1>1, <2>2, <2>5 DEF RollerPlace
  <2>7. RollerKept'
    <3>1. Recorded(k) = {} /\ Recorded(k)' = Recorded(k - 1) /\ \A n \in Names \ {k} : Recorded(n)' = Recorded(n)
      BY <1>0, <1>1, <1>2, <2>1, ContentsAre DEF Recorded, Same
    <3> SUFFICES ASSUME Quiet
                 PROVE  /\ \A n \in Names : n > numFiles => dir'[n] = 0
                        /\ pc'.at = "unlink" => dir'[pc'.name + 1] = dir'[pc'.name]
                        /\ pc'.at = "first" => Recorded(0)' \subseteq Recorded(1)'
                        /\ Covered' /\ NoGap'
      BY <1>1 DEF RollerKept, Names
    <3>2. \A n \in Names : n > numFiles => dir[n] = 0 /\ n # k
      BY <1>0, <1>1, RollerNumbers DEF RollerKept
    <3>3. Covered' /\ NoGap'
      BY <1>0, <1>1, <1>2, <3>1, LinkedKept DEF RollerKept
    <3>4. pc'.at = "unlink" => dir'[pc'.name + 1] = dir'[pc'.name]
      <4>1. (k - 1) + 1 = k
        BY <1>1
      <4> QED BY <1>2, <2>1, <2>2, <4>1 DEF Same
    <3>5. pc'.at = "first" => Recorded(0)' = Recorded(1)'
      BY <1>2, <2>2, <3>1, RollerNumbers
    <3> QED BY <2>1, <3>2, <3>3, <3>4, <3>5 DEF Same
  <2> QED BY <2>3, <2>4, <2>6, <2>7 DEF RollerInv
<1> QED BY <1>k, <1>3, <1>4 DEF Link

LEMMA OpenStep ==
  ASSUME RollerInv, OpenCompressed, Quiet' => Quiet, budget' \in Budgets, pc' \in Places
  PROVE  RollerInv'
<1>0. Disk /\ RollerTyping /\ RollerOrder /\ RollerPlace /\ RollerKept
  BY DEF RollerInv, RollerTyping
<1>1. /\ pc.at = "compress" /\ numFiles >= 1 /\ numFiles \in 0 .. Top /\ compression # "none" /\ dir[1] = 0
      /\ UNCHANGED <<numFiles, compression, data, rc, before, written, cut>>
  BY <1>0 DEF OpenCompressed, RollerPlace, RollerTyping
<1>2. 0 \in Names \ {1} /\ 1 \in Names
  BY <1>1, RollerNumbers
<1>3. CASE ~Exists(0) /\ pc' = Broken /\ UNCHANGED <<dir, budget>>
  <2>1. Recorded(0) = {}
    BY <1>0, <1>2, <1>3, ContentsAre DEF Exists
  <2> QED BY <1>0, <1>1, <1>3, <2>1, HaltedStep DEF Broken
<1>4. CASE Exists(0) /\ Fail /\ pc' = Broken /\ UNCHANGED dir
  BY <1>0, <1>1, <1>4, RollerFailNoted, HaltedStep DEF Broken
<1>5. CASE /\ dir' = [dir EXCEPT ![1] = FreeInode] /\ pc' = [pc EXCEPT !.at = "copy"] /\ UNCHANGED budget
  <2>1. /\ Disk' /\ dir'[1] # 0 /\ Contents(1)' = <<>> /\ Same(1)
        /\ \A n \in Names \ {1} : dir'[n] # dir'[1]
    BY <1>0, <1>1, <1>2, <1>5, FreshIs DEF Same
  <2>2. pc'.at = "copy"
    BY <1>0, <1>5 DEF RollerTyping, Places
  <2>3. RollerOrder'
    BY <1>0, <1>1, <1>2, <2>1, EmptiedOrder
  <2>4. RollerTyping'
    BY <1>0, <1>1, <2>1 DEF RollerTyping
  <2>5. RollerPlace'
    <3> DEFINE c == Contents(0)
               e == <<>>
    <3>1. Contents(0)' = c /\ c \in Seq(Nat) /\ Len(c) \in Nat
      <4>1. c \in Seq(Nat)
        BY <1>0, <1>2, ContentsAre
      <4> QED BY <1>2, <2>1, <4>1, SetOf DEF Same
    <3> HIDE DEF c
    <3>2. Len(e) = 0 /\ SubSeq(c, 1, 0) = e
      <4>1. 0 \in 0 .. Len(c)
        BY <3>1
      <4>2. SubSeq(c, 1, 0) \in Seq(Nat) /\ Len(SubSeq(c, 1, 0)) = 0
        BY <3>1, <4>1, PrefixIs
      <4> QED BY <4>2, EmptySeq
    <3>3. Contents(1)' = e
      BY <2>1
    <3> HIDE DEF e
    <3>4. Len(Contents(1)') <= Len(Contents(0)') /\ Contents(1)' = SubSeq(Contents(0)', 1, Len(Contents(1)'))
      <4>1. Len(Contents(1)') = 0
        BY <3>2, <3>3
      <4>2. Len(Contents(1)') <= Len(Contents(0)')
        BY <3>1, <4>1
      <4>3. SubSeq(Contents(0)', 1, Len(Contents(1)')) = SubSeq(c, 1, 0)
        BY <3>1, <4>1
      <4> QED BY <3>2, <3>3, <4>2, <4>3
    <3> QED BY <1>1, <2>1, <2>2, <3>4 DEF RollerPlace, Names
  <2>6. RollerKept'
    <3> SUFFICES ASSUME Quiet
                 PROVE  (\A n \in Names : n > numFiles => dir'[n] = 0) /\ Covered' /\ NoGap'
      BY <1>1, <2>2 DEF RollerKept, Names
    <3>1. \A n \in Names : Recorded(n)' = Recorded(n)
      BY <1>0, <1>1, <1>2, <2>1, SetOfEmpty, ContentsAre DEF Recorded, Same
    <3>2. Covered' /\ NoGap'
      BY <1>0, <1>1, <3>1, NothingMoved DEF RollerKept
    <3>3. \A n \in Names : n > numFiles => n # 1
      BY <1>1, RollerNumbers
    <3> QED BY <1>0, <2>1, <3>2, <3>3 DEF RollerKept, Same
  <2> QED BY <2>3, <2>4, <2>5, <2>6 DEF RollerInv
<1> QED BY <1>3, <1>4, <1>5 DEF OpenCompressed

LEMMA UnlinkFirstStep ==
  ASSUME RollerInv, UnlinkFirst, Quiet' => Quiet, budget' \in Budgets, pc' \in Places
  PROVE  RollerInv'
<1>0. Disk /\ RollerTyping /\ RollerOrder /\ RollerPlace /\ RollerKept
  BY DEF RollerInv, RollerTyping
<1>1. /\ pc.at = "first" /\ numFiles \in 0 .. Top /\ 0 \in Names
      /\ UNCHANGED <<numFiles, compression, written, cut>>
  BY <1>0, RollerNumbers DEF UnlinkFirst, RollerTyping
<1>2. CASE Exists(0) /\ Fail /\ rc' = FALSE /\ pc' = Idle /\ UNCHANGED <<dir, data>>
  BY <1>0, <1>1, <1>2, RollerFailNoted, HaltedStep DEF Idle
<1>3. CASE /\ Unlinked(0) /\ UNCHANGED <<rc, budget>>
           /\ pc' = IF Exists(0) THEN [pc EXCEPT !.at = "create"] ELSE Idle
  <2>1. /\ Disk' /\ dir'[0] = 0 /\ Contents(0)' = <<>> /\ Same(0)
    BY <1>0, <1>1, <1>3, UnlinkedIs DEF Same
  <2>2. pc'.at \in {"create", "idle"}
    BY <1>0, <1>3 DEF RollerTyping, Places, Idle
  <2>3. RollerOrder'
    BY <1>0, <1>1, <2>1, EmptiedOrder
  <2>4. RollerTyping'
    BY <1>0, <1>1, <2>1 DEF RollerTyping
  <2>5. RollerPlace'
    BY <2>1, <2>2 DEF RollerPlace
  <2>6. RollerKept'
    <3> SUFFICES ASSUME Quiet
                 PROVE  (\A n \in Names : n > numFiles => dir'[n] = 0) /\ Covered' /\ NoGap'
      BY <1>1, <2>2 DEF RollerKept, Names
    <3>1. Recorded(0)' = {} /\ \A n \in Names \ {0} : Recorded(n)' = Recorded(n)
      BY <2>1, SetOfEmpty DEF Recorded, Same
    <3>2. \A n \in Names : n > numFiles => dir[n] = 0 /\ n # 0
      BY <1>0, <1>1, RollerNumbers DEF RollerKept
    <3>3. \/ \A n \in Names : n > 0 => Recorded(n) = {}
          \/ 0 + 1 \in Names /\ Recorded(0) \subseteq Recorded(0 + 1)
      <4>1. CASE numFiles = 0
        BY <1>0, <3>2, <4>1, ContentsAre
      <4>2. CASE numFiles # 0
        <5>1. numFiles >= 1 /\ 1 \in Names /\ 0 + 1 = 1
          BY <1>1, <4>2, RollerNumbers
        <5>2. Recorded(0) \subseteq Recorded(1)
          BY <1>0, <1>1, <5>1 DEF RollerKept
        <5> QED BY <5>1, <5>2
      <4> QED BY <4>1, <4>2
    <3>4. Covered' /\ NoGap'
      BY <1>0, <1>1, <3>1, <3>3, EmptiedKept DEF RollerKept
    <3> QED BY <2>1, <3>2, <3>4 DEF Same
  <2> QED BY <2>3, <2>4, <2>5, <2>6 DEF RollerInv
<1> QED BY <1>2, <1>3 DEF UnlinkFirst

LEMMA CreateStep ==
  ASSUME RollerInv, Create, Quiet' => Quiet, budget' \in Budgets, pc' \in Places
  PROVE  RollerInv'
<1>0. Disk /\ RollerTyping /\ RollerOrder /\ RollerPlace /\ RollerKept
  BY DEF RollerInv, RollerTyping
<1>1. /\ dir[0] = 0 /\ numFiles \in 0 .. Top /\ 0 \in Names /\ pc' = Idle
      /\ UNCHANGED <<numFiles, compression, data, written, cut>>
  BY <1>0, RollerNumbers DEF Create, RollerPlace, RollerTyping
<1>2. CASE Fail /\ UNCHANGED dir
  BY <1>0, <1>1, <1>2, RollerFailNoted, HaltedStep DEF Idle
<1>3. CASE dir' = [dir EXCEPT ![0] = FreeInode] /\ UNCHANGED budget
  <2>1. /\ Disk' /\ Contents(0)' = <<>> /\ Same(0)
        /\ \A n \in Names \ {0} : dir'[n] # dir'[0]
    BY <1>0, <1>1, <1>3, FreshIs DEF Same
  <2>2. RollerOrder'
    BY <1>0, <1>1, <2>1, EmptiedOrder
  <2>3. RollerTyping'
    BY <1>0, <1>1, <2>1 DEF RollerTyping
  <2>4. RollerPlace'
    BY <1>1 DEF RollerPlace, Idle
  <2>5. RollerKept'
    <3> SUFFICES ASSUME Quiet
                 PROVE  (\A n \in Names : n > numFiles => dir'[n] = 0) /\ Covered' /\ NoGap'
      BY <1>1 DEF RollerKept, Names, Idle
    <3>1. \A n \in Names : Recorded(n)' = Recorded(n)
      BY <1>0, <1>1, <2>1, SetOfEmpty, ContentsAre DEF Recorded, Same
    <3>2. Covered' /\ NoGap'
      BY <1>0, <1>1, <3>1, NothingMoved DEF RollerKept
    <3>3. \A n \in Names : n > numFiles => n # 0
      BY <1>1, RollerNumbers
    <3> QED BY <1>0, <2>1, <3>2, <3>3 DEF RollerKept, Same
  <2> QED BY <2>2, <2>3, <2>4, <2>5 DEF RollerInv
<1> QED BY <1>2, <1>3 DEF Create

LEMMA RollerStep ==
  ASSUME RollerInv, [Next]_vars
  PROVE  RollerInv'
<1>0. Disk /\ RollerTyping /\ RollerOrder /\ RollerPlace /\ RollerKept
  BY DEF RollerInv, RollerTyping
<1>1. (Quiet' => Quiet) /\ budget' \in Budgets /\ pc' \in Places /\ numFiles \in 0 .. Top
  BY <1>0, QuietBefore DEF RollerTyping
<1>2. ASSUME NEW n \in 0 .. Top, SetNumFiles(n) PROVE RollerInv'
  <2>1. /\ UNCHANGED <<compression, dir, data, pc, written, cut>> /\ numFiles' = n /\ pc.at = "idle"
        /\ budget' = [budget EXCEPT !.changes = @ - 1]
    BY <1>2 DEF SetNumFiles, Idle
  <2>2. ~Quiet'
    <3>1. budget.changes \in 0 .. Changes /\ budget'.changes = budget.changes - 1
      BY <1>0, <2>1 DEF RollerTyping, Budgets
    <3> QED BY <3>1, RollerNumbers DEF Quiet
  <2> QED BY <1>1, <2>1, <2>2, HaltedStep
<1>3. CASE RollFiles
  <2>1. /\ UNCHANGED <<numFiles, compression, dir, data, written, cut, budget>>
        /\ pc' = IF numFiles = 0 THEN Broken ELSE [at |-> "unlink", name |-> numFiles]
    BY <1>3 DEF RollFiles
  <2>2. CASE numFiles = 0
    BY <1>1, <2>1, <2>2, HaltedStep DEF Broken, Quiet
  <2>3. CASE numFiles # 0
    <3>1. Contents(0) # <<>>
      <4>1. Len(Contents(0)) >= MaxSize
        BY <1>3 DEF RollFiles, FilesNeedRolling
      <4>2. Contents(0) = <<>> => Len(Contents(0)) = 0
        OBVIOUS
      <4> QED BY <4>1, <4>2, RollerNumbers
    <3>2. pc'.at = "unlink" /\ pc'.name = numFiles /\ numFiles \in 1 .. numFiles /\ ~(numFiles < numFiles)
      BY <1>1, <2>1, <2>3
    <3>3. \A n \in Names : Contents(n)' = Contents(n) /\ Recorded(n)' = Recorded(n)
      BY <2>1 DEF Contents, Exists, Recorded
    <3>4. Disk' /\ RollerTyping'
      BY <1>0, <1>1, <2>1 DEF RollerTyping, Disk, Names, Inodes
    <3>5. RollerOrder'
      BY <1>0, <2>1, <3>3, RollerNumbers DEF RollerOrder, Names
    <3>6. RollerPlace'
      BY <2>1, <3>1, <3>2, <3>3, RollerNumbers DEF RollerPlace
    <3>7. RollerKept'
      <4> SUFFICES ASSUME Quiet
                   PROVE  (\A n \in Names : n > numFiles => dir[n] = 0) /\ Covered' /\ NoGap'
        BY <2>1, <3>2 DEF RollerKept, Names, Quiet
      <4>1. Covered' /\ NoGap'
        BY <1>0, <2>1, <3>3, NothingMoved DEF RollerKept
      <4> QED BY <1>0, <4>1 DEF RollerKept
    <3> QED BY <3>4, <3>5, <3>6, <3>7 DEF RollerInv
  <2> QED BY <2>2, <2>3
<1>4. CASE Crash
  <2>1. UNCHANGED <<numFiles, compression, dir, data, written, cut>> /\ pc'.at = "idle"
    BY <1>4 DEF Crash, Idle
  <2> QED BY <1>1, <2>1, HaltedStep
<1>5. CASE UNCHANGED vars
  <2>1. UNCHANGED <<numFiles, compression, dir, data, pc, rc, before, written, cut, budget>>
    BY <1>5 DEF vars
  <2> QED BY <2>1 DEF RollerInv, RollerTyping, RollerOrder, RollerPlace, RollerKept, Disk, Covered,
                      NoGap, Quiet, Recorded, Contents, Exists, Names, Inodes
<1> QED BY <1>1, <1>2, <1>3, <1>4, <1>5, WriteStep, UnlinkStep, LinkStep, OpenStep, CopyStep,
           UnlinkFirstStep, CreateStep DEF Next

LEMMA RollerHolds == RollerInv => Ordered /\ Contiguous
<1> SUFFICES ASSUME RollerInv PROVE Ordered /\ Contiguous
  OBVIOUS
<1>0. Disk /\ RollerOrder /\ RollerKept
  BY DEF RollerInv, RollerTyping
<1>1. \A n \in Names : Contents(n) \in Seq(Nat) /\ Recorded(n) \subseteq 1 .. written
  BY <1>0, ContentsAre
<1>2. Ordered
  <2>1. ASSUME NEW n \in Names, NEW m \in Names, n < m, Contents(n) # <<>>, Contents(m) # <<>>,
               compression = "none"
        PROVE  Last(Contents(m)) <= Last(Contents(n))
    <3>1. /\ Last(Contents(m)) \in Recorded(m) /\ Last(Contents(n)) \in Recorded(n)
          /\ Last(Contents(m)) \in Nat /\ Last(Contents(n)) \in Nat
      BY <1>1, <2>1, Ends, SetOf DEF Recorded
    <3>2. CASE dir[n] = dir[m]
      <4>1. Contents(n) = Contents(m)
        BY <3>2 DEF Contents, Exists
      <4> QED BY <3>1, <4>1
    <3>3. CASE Older(Recorded(m), Recorded(n))
      BY <3>1, <3>3 DEF Older
    <3> QED BY <1>0, <2>1, <3>2, <3>3 DEF RollerOrder
  <2> QED BY <1>0, <2>1 DEF Ordered, RollerOrder
<1>3. Contiguous
  <2> SUFFICES ASSUME Quiet PROVE \E lo \in 1 .. written + 1 : UNION {Recorded(n) : n \in Names} = lo .. written
    BY DEF Contiguous, Quiet
  <2> DEFINE kept == UNION {Recorded(n) : n \in Names}
  <2>1. written \in Nat /\ kept \subseteq 1 .. written
    BY <1>0, <1>1 DEF Disk
  <2>2. \A r \in kept, s \in 1 .. written : r < s => s \in kept
    BY <1>0 DEF RollerKept, NoGap
  <2> HIDE DEF kept
  <2>3. CASE kept = {}
    BY <2>1, <2>3 DEF kept
  <2>4. CASE kept # {}
    <3>1. PICK lo \in kept : \A r \in kept : lo <= r
      <4>1. kept \in SUBSET Nat
        BY <2>1
      <4> QED BY <2>4, <4>1, LeastOf
    <3>2. lo \in 1 .. written + 1
      BY <2>1
    <3>3. ASSUME NEW s PROVE s \in kept <=> s \in lo .. written
      <4>1. ASSUME s \in kept PROVE s \in lo .. written
        BY <2>1, <3>1, <4>1
      <4>2. ASSUME s \in lo .. written PROVE s \in kept
        <5>1. s \in 1 .. written /\ (s = lo \/ lo < s)
          BY <2>1, <4>2
        <5> QED BY <2>2, <5>1
      <4> QED BY <4>1, <4>2
    <3>4. kept = lo .. written
      BY <3>3
    <3> QED BY <3>2, <3>4 DEF kept
  <2> QED BY <2>3, <2>4
<1> QED BY <1>2, <1>3

LEMMA FilesInvariance == MCSpec => [](RollerInv /\ LoggerInv)
<1>1. MCInit => RollerInv /\ LoggerInv
  BY RollerInit, LoggerInit DEF MCInit
<1>2. RollerInv /\ LoggerInv /\ [MCNext]_allVars => (RollerInv /\ LoggerInv)'
  BY OwnSteps, RollerStep, LoggerStep
<1> QED BY <1>1, <1>2, PTL DEF MCSpec

(* FileRoller and FileLogger keep the records in order from file to file.  *)
THEOREM FilesAreInOrder == MCSpec => []FilesInOrder
<1>1. RollerInv /\ LoggerInv => FilesInOrder
  BY RollerHolds, LoggerHolds DEF FilesInOrder
<1> QED BY <1>1, FilesInvariance, PTL

(* With no failed call, and no file compressed in part only, they lose     *)
(* only the oldest records, wherever they crash.                           *)
THEOREM OldestAreLost == MCSpec => []OnlyOldestLost
<1>1. RollerInv /\ LoggerInv => OnlyOldestLost
  BY RollerHolds, LoggerHolds DEF OnlyOldestLost
<1> QED BY <1>1, FilesInvariance, PTL

-----------------------------------------------------------------------------
(* What RollFiles() returns.                                               *)

Image(n) == IF Exists(n) THEN <<Contents(n)>> ELSE <<>>

(* Uncompressed, the names that the roll over has come to have what was at *)
(* the name before, and the others what they had.                          *)
RollerRolled ==
  pc # Idle /\ rc /\ compression = "none" =>
    /\ pc.at \in {"unlink", "link"} =>
         \A n \in 0 .. numFiles :
           /\ n < pc.name => before[n] = Image(n)
           /\ n > pc.name => before[n - 1] = Image(n)
    /\ pc.at \in {"first", "create"} => \A n \in 1 .. numFiles : before[n - 1] = Image(n)

LEMMA ImageKept ==
  ASSUME NEW k, Same(k)
  PROVE  \A n \in Names \ {k} : Image(n)' = Image(n)
  BY DEF Same, Image, Exists

LEMMA RolledStep ==
  ASSUME RollerInv, RollerRolled, [Next]_vars
  PROVE  RollerRolled' /\ [TrueIsRolled]_vars
<1>0. Disk /\ RollerPlace /\ numFiles \in 0 .. Top /\ pc \in Places
  BY DEF RollerInv, RollerTyping
<1> USE DEF Idle, Broken
<1>1. ASSUME pc' = Idle, pc = Idle \/ rc' = FALSE PROVE RollerRolled' /\ TrueIsRolled
  BY <1>1 DEF RollerRolled, TrueIsRolled
<1>2. ASSUME pc'.at \in {"first", "create"}, rc' = FALSE \/ compression' # "none"
      PROVE  RollerRolled' /\ TrueIsRolled
  BY <1>2 DEF RollerRolled, TrueIsRolled
<1>3. CASE Write \/ \E n \in 0 .. Top : SetNumFiles(n)
  BY <1>1, <1>3 DEF Write, SetNumFiles
<1>4. CASE RollFiles
  <2>1. /\ UNCHANGED <<numFiles, dir, data>> /\ pc = Idle
        /\ pc' = IF numFiles = 0 THEN Broken ELSE [at |-> "unlink", name |-> numFiles]
        /\ \A n \in Names : before'[n] = Image(n)
    BY <1>4 DEF RollFiles, Image
  <2>2. \A n \in 0 .. numFiles : n \in Names /\ Image(n)' = Image(n)
    BY <1>0, <2>1, RollerNumbers DEF Image, Exists, Contents
  <2>3. \A n \in 0 .. numFiles : ~(n > numFiles)
    BY <1>0
  <2>4. numFiles = 0 => 1 .. numFiles = {}
    OBVIOUS
  <2> QED BY <2>1, <2>2, <2>3, <2>4 DEF RollerRolled, TrueIsRolled
<1>5. CASE Unlink
  <2>1. CASE rc' = FALSE /\ pc' = Broken
    BY <1>2, <2>1
  <2>2. CASE /\ Unlinked(pc.name) /\ UNCHANGED <<rc, budget>>
             /\ pc' = [pc EXCEPT !.at = IF pc.name = 1 /\ compression # "none" THEN "compress" ELSE "link"]
    <3>1. PICK k \in 1 .. numFiles : k = pc.name
      BY <1>0, <1>5 DEF Unlink, RollerPlace
    <3>2. /\ pc.at = "unlink" /\ UNCHANGED <<numFiles, compression, before, rc>> /\ UNCHANGED written
          /\ pc'.name = k /\ pc'.at \in {"link", "compress"}
      BY <1>0, <1>5, <2>2, <3>1 DEF Unlink, Places
    <3>3. k \in Names
      BY <1>0, <3>1, RollerNumbers
    <3>4. \A n \in Names \ {k} : Image(n)' = Image(n)
      BY <1>0, <2>2, <3>1, <3>2, <3>3, UnlinkedIs, ImageKept DEF Same
    <3>5. \A n \in 0 .. numFiles : n \in Names /\ (n < k \/ n > k => n # k)
      BY <1>0, <3>1, RollerNumbers
    <3> QED BY <3>1, <3>2, <3>4, <3>5 DEF RollerRolled, TrueIsRolled
  <2> QED BY <1>5, <2>1, <2>2 DEF Unlink
<1>6. CASE Link
  <2>1. CASE rc' = FALSE /\ pc' = Broken
    BY <1>2, <2>1
  <2>2. CASE /\ dir' = [dir EXCEPT ![pc.name] = dir[pc.name - 1]] /\ pc' = NextName(pc.name)
             /\ UNCHANGED <<rc, budget>>
    <3>1. PICK k \in 1 .. numFiles : k = pc.name
      BY <1>0, <1>6 DEF Link, RollerPlace
    <3>2. /\ pc.at = "link" /\ UNCHANGED <<numFiles, compression, data, before, rc>>
          /\ dir' = [dir EXCEPT ![k] = dir[k - 1]]
      BY <1>6, <2>2, <3>1 DEF Link
    <3>3. /\ k \in Names /\ k - 1 \in Names \ {k} /\ k - 1 \in 0 .. numFiles /\ k - 1 < k
          /\ \A n \in 0 .. numFiles : n \in Names
          /\ \A n \in 0 .. numFiles : n < k - 1 => n < k /\ n # k
          /\ \A n \in 0 .. numFiles : n > k - 1 => n > k \/ n = k
          /\ \A n \in 0 .. numFiles : n > k => n # k
      BY <1>0, <3>1, RollerNumbers
    <3>4. /\ Image(k)' = Image(k - 1)
          /\ \A n \in Names \ {k} : Image(n)' = Image(n)
      BY <1>0, <3>2, <3>3 DEF Image, Exists, Contents, Disk
    <3>5. ASSUME rc', compression = "none"
          PROVE  /\ \A n \in 0 .. numFiles : n < k - 1 => before[n] = Image(n)'
                 /\ \A n \in 0 .. numFiles : n > k - 1 => before[n - 1] = Image(n)'
      <4>1. /\ \A n \in 0 .. numFiles : n < k => before[n] = Image(n)
            /\ \A n \in 0 .. numFiles : n > k => before[n - 1] = Image(n)
        BY <3>1, <3>2, <3>5 DEF RollerRolled
      <4> QED BY <3>3, <3>4, <4>1
    <3>6. CASE k = 1
      <4>1. \A n \in 1 .. numFiles : n \in 0 .. numFiles /\ n > k - 1
        BY <1>0, <3>6
      <4>2. pc' = Broken
        BY <2>2, <3>1, <3>6 DEF NextName
      <4> QED BY <3>2, <3>5, <4>1, <4>2 DEF RollerRolled, TrueIsRolled
    <3>7. CASE k # 1
      <4>1. pc'.at = "unlink" /\ pc'.name = k - 1
        BY <2>2, <3>1, <3>7 DEF NextName
      <4> QED BY <3>2, <3>5, <4>1 DEF RollerRolled, TrueIsRolled
    <3> QED BY <3>6, <3>7
  <2> QED BY <1>6, <2>1, <2>2 DEF Link
<1>7. CASE OpenCompressed \/ Copy
  <2>1. compression' # "none"
    BY <1>0, <1>7 DEF OpenCompressed, Copy, RollerPlace
  <2>2. pc' # Idle
    <3>1. CASE OpenCompressed
      BY <1>0, <3>1 DEF OpenCompressed, Places
    <3>2. CASE Copy
      <4>1. pc.at = "copy" /\ (pc' = pc \/ pc' = [at |-> "first", name |-> 0])
        BY <3>2, Zenon DEF Copy
      <4> QED BY <4>1
    <3> QED BY <1>7, <3>1, <3>2
  <2> QED BY <2>1, <2>2 DEF RollerRolled, TrueIsRolled
<1>8. ASSUME pc.at \in {"first", "create"}, Same(0), UNCHANGED <<numFiles, compression, rc>>,
             Disk', pc' = Idle \/ (pc'.at = "create" /\ UNCHANGED before)
      PROVE  RollerRolled' /\ TrueIsRolled
  <2>1. \A n \in 1 .. numFiles : n \in Names \ {0}
    BY <1>0, RollerNumbers
  <2>2. rc' /\ compression = "none" => \A n \in 1 .. numFiles : before[n - 1] = Image(n)'
    BY <1>8, <2>1, ImageKept DEF RollerRolled
  <2>3. RollerRolled'
    BY <1>8, <2>2 DEF RollerRolled
  <2>4. TrueIsRolled
    <3> SUFFICES ASSUME rc', compression = "none", NEW n \in 1 .. numFiles
                 PROVE  LET prev == before[n - 1]
                        IN  (dir'[n] # 0) = (prev # <<>>) /\ (prev # <<>> => data'[dir'[n]] = prev[1])
      BY DEF TrueIsRolled
    <3>1. before[n - 1] = IF dir'[n] # 0 THEN <<data'[dir'[n]]>> ELSE <<>>
      BY <2>2 DEF Image, Exists, Contents
    <3> QED BY <3>1
  <2> QED BY <2>3, <2>4
<1>9. CASE UnlinkFirst
  <2>1. CASE rc' = FALSE /\ pc' = Idle
    BY <1>1, <2>1
  <2>2. CASE /\ Unlinked(0) /\ UNCHANGED <<rc, budget>>
             /\ pc' = IF Exists(0) THEN [pc EXCEPT !.at = "create"] ELSE Idle
    <3>1. /\ pc.at = "first" /\ UNCHANGED <<numFiles, compression, written>>
          /\ before' = IF pc' = Idle THEN <<>> ELSE before
      BY <1>9 DEF UnlinkFirst
    <3>2. pc' = Idle \/ pc'.at = "create"
      BY <1>0, <2>2 DEF Places
    <3>3. pc'.at = "create" => pc' # Idle
      OBVIOUS
    <3>4. Disk' /\ Same(0)
      BY <1>0, <2>2, <3>1, UnlinkedIs, RollerNumbers DEF Same
    <3> QED BY <1>8, <2>2, <3>1, <3>2, <3>3, <3>4
  <2> QED BY <1>9, <2>1, <2>2 DEF UnlinkFirst
<1>10. CASE Create
  <2>1. /\ pc.at = "create" /\ dir[0] = 0 /\ pc' = Idle
        /\ UNCHANGED <<numFiles, compression, data, rc, written>>
        /\ dir' = [dir EXCEPT ![0] = FreeInode] \/ UNCHANGED dir
    BY <1>0, <1>10 DEF Create, RollerPlace
  <2>2. Disk' /\ Same(0)
    <3>1. CASE UNCHANGED dir
      BY <1>0, <2>1, <3>1 DEF Disk, Same, Names, Inodes, Contents, Exists
    <3>2. CASE dir' = [dir EXCEPT ![0] = FreeInode]
      BY <1>0, <2>1, <3>2, FreshIs, RollerNumbers DEF Same
    <3> QED BY <2>1, <3>1, <3>2
  <2>3. pc.at \in {"first", "create"}
    BY <2>1
  <2> QED BY <1>8, <2>1, <2>2, <2>3
<1>11. CASE Crash
  BY <1>1, <1>11 DEF Crash
<1>12. CASE UNCHANGED vars
  <2>1. UNCHANGED <<numFiles, compression, dir, data, pc, rc, before>>
    BY <1>12 DEF vars
  <2> QED BY <1>12, <2>1 DEF RollerRolled, Image, Exists, Contents
<1> QED BY <1>3, <1>4, <1>5, <1>6, <1>7, <1>9, <1>10, <1>11, <1>12 DEF Next

(* RollFiles() returns true only if it has moved every file, or the files  *)
(* are compressed.                                                         *)
THEOREM LossIsReported == MCSpec => RollReportsLoss
<1>1. MCInit => RollerRolled
  BY DEF MCInit, Init, RollerRolled
<1>2. (RollerInv /\ LoggerInv) /\ RollerRolled /\ [MCNext]_allVars => RollerRolled' /\ [TrueIsRolled]_allVars
  <2>1. ASSUME UNCHANGED vars PROVE TrueIsRolled \/ UNCHANGED allVars
    <3>1. pc' = pc
      BY <2>1 DEF vars
    <3> QED BY <3>1 DEF TrueIsRolled
  <2> QED BY <2>1, OwnSteps, RolledStep
<1> QED BY <1>1, <1>2, FilesInvariance, PTL DEF MCSpec, RollReportsLoss

-----------------------------------------------------------------------------
(* Both implement RotatedLog, as long as nothing fails.                    *)

LEMMA RollIs ==
  ASSUME NEW S, NEW N \in Nat, NEW f \in [1 .. N + 1 -> S], NEW h \in [1 .. N + 1 -> S],
         NEW e \in S, h[1] = e, \A i \in 2 .. N + 1 : h[i] = f[i - 1]
  PROVE  h = SubSeq(<<e>> \o f, 1, Len(f))
<1> DEFINE u == <<e>> \o f
           t == SubSeq(u, 1, N + 1)
<1>1. f \in Seq(S) /\ Len(f) = N + 1 /\ h \in Seq(S) /\ Len(h) = N + 1 /\ N + 1 \in Nat
  OBVIOUS
<1>2. /\ u \in Seq(S) /\ Len(u) = 1 + (N + 1)
      /\ \A i \in 1 .. 1 + (N + 1) : u[i] = IF i <= 1 THEN <<e>>[i] ELSE f[i - 1]
  <2>1. <<e>> \in Seq(S) /\ Len(<<e>>) = 1
    OBVIOUS
  <2> QED BY <1>1, <2>1, ConcatProperties
<1> HIDE DEF u
<1>3. \A i \in 1 .. N + 1 : u[i] = h[i] /\ u[i] \in S
  <2>1. 1 \in 1 .. 1 + (N + 1) /\ <<e>>[1] = e
    OBVIOUS
  <2>2. \A i \in 1 .. N + 1 : i = 1 \/ i \in 2 .. N + 1
    OBVIOUS
  <2>3. \A i \in 2 .. N + 1 : i \in 1 .. 1 + (N + 1) /\ ~(i <= 1)
    OBVIOUS
  <2>4. u[1] = h[1]
    BY <1>2, <2>1
  <2>5. \A i \in 2 .. N + 1 : u[i] = h[i]
    BY <1>2, <2>3
  <2> QED BY <2>2, <2>4, <2>5
<1>4. t \in Seq(S) /\ Len(t) = N + 1 /\ \A i \in 1 .. N + 1 : t[i] = u[i]
  <2>1. /\ t \in Seq(S) /\ Len(t) = IF 1 <= N + 1 THEN N + 1 - 1 + 1 ELSE 0
        /\ \A i \in 1 .. N + 1 - 1 + 1 : t[i] = u[1 + i - 1]
    BY <1>1, <1>2, <1>3, SubSeqProperties
  <2> QED BY <2>1
<1> HIDE DEF t
<1>5. t = h
  BY <1>1, <1>3, <1>4, SeqEqual
<1> QED BY <1>1, <1>5 DEF t, u

Moving == {"unlink", "link", "compress", "copy"}

LEMMA GenerationIs ==
  ASSUME NEW g
  PROVE  /\ pc = Idle => Generation(g) = Contents(g)
         /\ pc # Idle /\ g = 0 => Generation(g) = <<>>
         /\ pc # Idle /\ g # 0 /\ pc.at \in Moving =>
              Generation(g) = IF g <= pc.name THEN Contents(g - 1) ELSE Contents(g)
         /\ pc # Idle /\ g # 0 /\ pc.at \notin Moving => Generation(g) = Contents(g)
         /\ pc' = Idle => Generation(g)' = Contents(g)'
         /\ pc' # Idle /\ g = 0 => Generation(g)' = <<>>
         /\ pc' # Idle /\ g # 0 /\ pc'.at \in Moving =>
              Generation(g)' = IF g <= pc'.name THEN Contents(g - 1)' ELSE Contents(g)'
         /\ pc' # Idle /\ g # 0 /\ pc'.at \notin Moving => Generation(g)' = Contents(g)'
  BY DEF Generation, Moving, Idle

(* Only while RollFiles() is about to unlink the first file has that       *)
(* another name.                                                           *)
RollerGens ==
  /\ pc.at \in {"compress", "copy"} => pc.name = 1
  /\ Undisturbed /\ pc.at # "first" => \A m \in Names \ {0} : dir[m] = 0 \/ dir[m] # dir[0]

LEMMA CalmBefore ==
  ASSUME RollerTyping, [Next]_vars, Undisturbed'
  PROVE  /\ Undisturbed /\ ~Fail /\ ~Crash /\ \A n \in 0 .. Top : ~SetNumFiles(n)
<1>0. budget \in Budgets /\ Faults \in Nat /\ Crashes \in Nat /\ Changes \in Nat
  BY RollerNumbers DEF RollerTyping
<1>1. /\ budget'.faults = Faults /\ budget'.crashes = Crashes /\ budget'.changes = Changes
  BY DEF Undisturbed
<1>2. ~(budget.faults > 0 /\ budget' = [budget EXCEPT !.faults = @ - 1])
  BY <1>0, <1>1 DEF Budgets
<1>3. ~(budget.crashes > 0 /\ budget' = [budget EXCEPT !.crashes = @ - 1])
  BY <1>0, <1>1 DEF Budgets
<1>4. ~(budget.changes > 0 /\ budget' = [budget EXCEPT !.changes = @ - 1])
  BY <1>0, <1>1 DEF Budgets
<1>5. ~Fail /\ ~Crash /\ \A n \in 0 .. Top : ~SetNumFiles(n)
  BY <1>2, <1>3, <1>4 DEF Fail, Crash, SetNumFiles
<1>6. budget' = budget
  BY <1>5 DEF Next, Write, RollFiles, Unlink, Link, OpenCompressed, Copy, UnlinkFirst,
              Create, vars
<1>7. ~cut' => ~cut
  <2>1. cut' = cut \/ \E b \in BOOLEAN : cut' = (cut \/ b)
    BY DEF Next, Write, SetNumFiles, RollFiles, Unlink, Link, OpenCompressed, Copy, UnlinkFirst,
           Create, Crash, vars
  <2> QED BY <2>1
<1> QED BY <1>5, <1>6, <1>7 DEF Undisturbed

LEMMA GensStep ==
  ASSUME RollerInv, RollerGens, [Next]_vars
  PROVE  RollerGens'
<1>0. Disk /\ RollerTyping /\ RollerPlace /\ numFiles \in 0 .. Top /\ pc \in Places /\ 0 \in Names
  BY RollerNumbers DEF RollerInv, RollerTyping
<1>1. pc'.at \in {"compress", "copy"} => pc'.name = 1
  <2>1. CASE Unlink
    BY <1>0, <2>1 DEF Unlink, Broken, Places
  <2>2. CASE Link
    BY <2>2 DEF Link, Broken, NextName
  <2>3. CASE OpenCompressed
    BY <1>0, <2>3 DEF OpenCompressed, Broken, Places, RollerGens
  <2>4. CASE Copy
    <3>1. pc.at = "copy" /\ (pc' = pc \/ pc' = Broken)
      BY <2>4, Zenon DEF Copy
    <3> QED BY <3>1 DEF Broken, RollerGens
  <2>5. CASE UnlinkFirst
    BY <1>0, <2>5 DEF UnlinkFirst, Idle, Places
  <2>6. CASE Create \/ Crash
    BY <2>6 DEF Create, Crash, Idle
  <2>7. CASE RollFiles
    BY <2>7 DEF RollFiles, Broken
  <2>8. CASE Write \/ (\E n \in 0 .. Top : SetNumFiles(n)) \/ UNCHANGED vars
    <3>1. pc' = pc
      BY <2>8 DEF Write, SetNumFiles, vars
    <3> QED BY <3>1 DEF RollerGens
  <2> QED BY <2>1, <2>2, <2>3, <2>4, <2>5, <2>6, <2>7, <2>8 DEF Next
<1>2. ASSUME Undisturbed', pc'.at # "first", NEW m \in Names \ {0}
      PROVE  dir'[m] = 0 \/ dir'[m] # dir'[0]
  <2>0. Undisturbed /\ ~Fail /\ ~Crash /\ \A n \in 0 .. Top : ~SetNumFiles(n)
    BY <1>0, <1>2, CalmBefore
  <2>1. pc.at # "first" => \A n \in Names \ {0} : dir[n] = 0 \/ dir[n] # dir[0]
    BY <2>0 DEF RollerGens
  <2>2. CASE Write
    <3>1. /\ dir' = [dir EXCEPT ![0] = IF Exists(0) THEN dir[0] ELSE FreeInode] /\ pc.at = "idle"
      BY <2>2 DEF Write, Idle
    <3>2. \A n \in Names : dir[n] # FreeInode
      BY <1>0, FreeInodeIs
    <3> QED BY <1>0, <2>1, <3>1, <3>2 DEF Disk, Exists
  <2>3. CASE RollFiles \/ Copy \/ UNCHANGED vars
    <3>1. dir' = dir
      BY <2>3 DEF RollFiles, Copy, vars
    <3>2. pc.at # "first"
      <4>1. CASE RollFiles
        BY <4>1 DEF RollFiles, Idle
      <4>2. CASE Copy
        <5>1. pc.at = "copy"
          BY <4>2, Zenon DEF Copy
        <5> QED BY <5>1
      <4>3. CASE UNCHANGED vars
        BY <1>2, <4>3 DEF vars
      <4> QED BY <2>3, <4>1, <4>2, <4>3
    <3> QED BY <2>1, <3>1, <3>2
  <2>4. CASE Unlink
    <3>1. PICK k \in 1 .. numFiles : k = pc.name
      BY <1>0, <2>4 DEF Unlink, RollerPlace
    <3>2. dir' = [dir EXCEPT ![k] = 0] /\ pc.at = "unlink"
      BY <2>0, <2>4, <3>1 DEF Unlink, Unlinked
    <3>3. k \in Names \ {0}
      BY <1>0, RollerNumbers
    <3> QED BY <1>0, <2>1, <3>2, <3>3 DEF Disk
  <2>5. CASE Link
    <3>1. PICK k \in 1 .. numFiles : k = pc.name
      BY <1>0, <2>5 DEF Link, RollerPlace
    <3>2. dir' = [dir EXCEPT ![k] = dir[k - 1]] /\ pc.at = "link" /\ pc' = NextName(k)
      BY <2>0, <2>5, <3>1 DEF Link
    <3>3. k # 1
      BY <1>2, <3>2 DEF NextName, Broken
    <3>4. k \in Names \ {0} /\ k - 1 \in Names \ {0}
      BY <1>0, <3>3, RollerNumbers
    <3> QED BY <1>0, <2>1, <3>2, <3>4 DEF Disk
  <2>6. CASE OpenCompressed
    <3>1. /\ dir' = [dir EXCEPT ![1] = FreeInode] /\ pc.at = "compress"
      BY <1>2, <2>0, <2>6 DEF OpenCompressed, Broken
    <3>2. \A n \in Names : dir[n] # FreeInode
      BY <1>0, FreeInodeIs
    <3> QED BY <1>0, <2>1, <3>1, <3>2 DEF Disk
  <2>7. CASE UnlinkFirst
    <3>1. dir' = [dir EXCEPT ![0] = 0]
      BY <2>0, <2>7 DEF UnlinkFirst, Unlinked
    <3> QED BY <1>0, <3>1 DEF Disk
  <2>8. CASE Create
    <3>1. dir' = [dir EXCEPT ![0] = FreeInode]
      BY <2>0, <2>8 DEF Create
    <3>2. \A n \in Names : dir[n] # FreeInode
      BY <1>0, FreeInodeIs
    <3> QED BY <1>0, <3>1, <3>2 DEF Disk
  <2> QED BY <2>0, <2>2, <2>3, <2>4, <2>5, <2>6, <2>7, <2>8 DEF Next
<1> QED BY <1>1, <1>2 DEF RollerGens, Names

LEMMA GensUnchanged ==
  ASSUME UNCHANGED numFiles, numFiles \in Nat, \A g \in 0 .. numFiles : Generation(g)' = Generation(g)
  PROVE  Implements
<1>1. \A i \in 1 .. numFiles + 1 : i - 1 \in 0 .. numFiles
  OBVIOUS
<1>2. UNCHANGED Generations
  BY <1>1 DEF Generations
<1> QED BY <1>2 DEF Implements

LEMMA RollerImplements ==
  ASSUME RollerInv, RollerGens, [Next]_vars
  PROVE  Implements
<1> SUFFICES ASSUME Undisturbed, Undisturbed' PROVE Implements
  BY DEF Implements
<1>0. /\ Disk /\ RollerTyping /\ RollerOrder /\ RollerPlace /\ RollerKept /\ Quiet
      /\ numFiles \in 0 .. Top /\ numFiles \in Nat /\ pc \in Places /\ 0 \in Names
  BY RollerNumbers DEF RollerInv, RollerTyping, Undisturbed, Quiet
<1>1. ~Fail /\ ~Crash /\ \A n \in 0 .. Top : ~SetNumFiles(n)
  BY <1>0, CalmBefore
<1>2. /\ \A g \in 0 .. numFiles : g \in Names
      /\ \A g \in 1 .. numFiles : g \in Names \ {0} /\ g - 1 \in Names
      /\ \A g \in 0 .. numFiles : g = 0 \/ g \in 1 .. numFiles
  BY <1>0, RollerNumbers
<1> DEFINE gens == Generations
<1>3. CASE Write
  <2> DEFINE i == IF Exists(0) THEN dir[0] ELSE FreeInode
             r == written + 1
  <2>1. /\ i \in Inodes /\ written' = written + 1 /\ dir' = [dir EXCEPT ![0] = i]
        /\ data' = [data EXCEPT ![i] = Append(@, written')]
        /\ pc = Idle /\ pc' = Idle /\ UNCHANGED numFiles /\ written < MaxRecords
    <3>1. i \in Inodes
      BY <1>0, FreeInodeIs, RollerNumbers DEF Disk, Exists
    <3> QED BY <1>3, <3>1 DEF Write
  <2>2. /\ \A n \in Names \ {0} : dir'[n] = dir[n]
        /\ Contents(0)' = Append(Contents(0), r)
        /\ \A n \in Names : dir'[n] # i => Contents(n)' = Contents(n)
        /\ \A n \in Names \ {0} : dir'[n] = i => dir[0] = i
    BY <1>0, <2>1, WrittenIs0
  <2>3. r \in 1 .. MaxRecords
    BY <1>0, <2>1, RollerAssumption DEF Disk
  <2>i. i # 0
    BY <2>1, RollerNumbers
  <2> HIDE DEF i, r
  <2>4. ASSUME NEW n \in Names \ {0} PROVE Contents(n)' = Contents(n)
    <3>1. dir[n] = 0 \/ dir[n] # dir[0]
      BY <2>1 DEF RollerGens, Idle
    <3>2. dir'[n] # i
      BY <2>2, <2>i, <3>1
    <3> QED BY <2>2, <3>2
  <2>5. \A g : Generation(g) = Contents(g) /\ Generation(g)' = Contents(g)'
    BY <2>1, GenerationIs
  <2>6. Generations' = [Generations EXCEPT ![1] = Append(@, r)]
    <3>1. /\ Generations = [j \in 1 .. numFiles + 1 |-> Contents(j - 1)]
          /\ Generations' = [j \in 1 .. numFiles + 1 |-> Contents(j - 1)']
      BY <2>1, <2>5 DEF Generations
    <3>2. ASSUME NEW j \in 1 .. numFiles + 1
          PROVE  Contents(j - 1)' = IF j = 1 THEN Append(Contents(j - 1), r) ELSE Contents(j - 1)
      <4>1. CASE j = 1
        BY <2>2, <4>1
      <4>2. CASE j # 1
        <5>1. j - 1 \in 1 .. numFiles
          BY <1>0, <4>2
        <5> QED BY <1>2, <2>4, <4>2, <5>1
      <4> QED BY <4>1, <4>2
    <3>3. 1 \in 1 .. numFiles + 1
      BY <1>0
    <3> QED BY <3>1, <3>2, <3>3
  <2>7. Generations # <<>>
    <3>1. DOMAIN Generations = 1 .. numFiles + 1 /\ 1 \in 1 .. numFiles + 1
      BY <1>0 DEF Generations
    <3>2. DOMAIN <<>> = {}
      OBVIOUS
    <3> QED BY <3>1, <3>2
  <2> QED BY <2>3, <2>6, <2>7 DEF Implements, Promise!Next, Promise!Write
<1>4. CASE RollFiles
  <2>1. /\ pc = Idle /\ UNCHANGED <<numFiles, dir, data>>
        /\ pc' = IF numFiles = 0 THEN Broken ELSE [at |-> "unlink", name |-> numFiles]
    BY <1>4 DEF RollFiles
  <2>2. \A g \in 0 .. numFiles : Contents(g)' = Contents(g) /\ Contents(g) \in Seq(Nat)
    BY <1>0, <1>2, <2>1, ContentsAre DEF Contents, Exists
  <2>3. \A g \in 0 .. numFiles : Generation(g) = Contents(g)
    BY <2>1, GenerationIs
  <2>4. pc' # Idle
    BY <2>1 DEF Broken, Idle
  <2>5. Generation(0)' = <<>>
    BY <2>4, GenerationIs
  <2>6. ASSUME NEW g \in 1 .. numFiles PROVE Generation(g)' = Contents(g - 1)
    <3>1. pc'.at = "unlink" /\ pc'.name = numFiles /\ g <= pc'.name /\ g # 0 /\ g - 1 \in 0 .. numFiles
      BY <1>0, <2>1
    <3>2. Generation(g)' = Contents(g - 1)'
      BY <2>4, <3>1, GenerationIs DEF Moving
    <3> QED BY <2>2, <3>1, <3>2
  <2> DEFINE e == <<>>
             f == Generations
             h == [j \in 1 .. numFiles + 1 |-> IF j = 1 THEN e ELSE Contents(j - 2)]
  <2>7. e \in Seq(Nat) /\ \A i \in 1 .. numFiles + 1 : i - 1 \in 0 .. numFiles
    <3>1. e \in Seq(Nat)
      BY SetOfEmpty
    <3>2. \A i \in 1 .. numFiles + 1 : i - 1 \in 0 .. numFiles
      BY <1>0
    <3> QED BY <3>1, <3>2
  <2>8. f = [j \in 1 .. numFiles + 1 |-> Contents(j - 1)]
    BY <2>3, <2>7 DEF Generations
  <2>9. Generations' = h
    <3>1. ASSUME NEW j \in 1 .. numFiles + 1 PROVE Generation(j - 1)' = h[j]
      <4>1. CASE j = 1
        BY <2>5, <4>1
      <4>2. CASE j # 1
        <5>1. j - 1 \in 1 .. numFiles /\ (j - 1) - 1 = j - 2
          BY <1>0, <4>2
        <5>2. Generation(j - 1)' = Contents(j - 2)
          BY <2>6, <5>1
        <5> QED BY <4>2, <5>2
      <4> QED BY <4>1, <4>2
    <3> QED BY <2>1, <3>1 DEF Generations
  <2> HIDE DEF e, f
  <2>10. f \in [1 .. numFiles + 1 -> Seq(Nat)]
    BY <2>2, <2>7, <2>8
  <2>11. h \in [1 .. numFiles + 1 -> Seq(Nat)]
    <3>1. \A j \in 1 .. numFiles + 1 : j # 1 => j - 2 \in 0 .. numFiles
      BY <1>0
    <3> QED BY <2>2, <2>7, <3>1
  <2>12. h[1] = e /\ \A i \in 2 .. numFiles + 1 : h[i] = f[i - 1]
    <3>1. \A i \in 2 .. numFiles + 1 : i - 1 \in 1 .. numFiles + 1 /\ (i - 1) - 1 = i - 2 /\ i # 1
      BY <1>0
    <3>2. 1 \in 1 .. numFiles + 1 /\ \A i \in 2 .. numFiles + 1 : i \in 1 .. numFiles + 1
      BY <1>0
    <3> QED BY <2>8, <3>1, <3>2
  <2> HIDE DEF h
  <2>13. h = SubSeq(<<e>> \o f, 1, Len(f))
    BY ONLY <1>0, <2>7, <2>10, <2>11, <2>12, RollIs
  <2> QED BY <2>9, <2>13 DEF Implements, Promise!Next, Promise!Roll, e, f
<1>5. CASE Unlink
  <2>1. PICK k \in 1 .. numFiles : k = pc.name
    BY <1>0, <1>5 DEF Unlink, RollerPlace
  <2>2. /\ Unlinked(k) /\ pc.at = "unlink" /\ UNCHANGED <<numFiles, written>>
        /\ pc'.at \in {"compress", "link"} /\ pc'.name = k
    BY <1>0, <1>1, <1>5, <2>1 DEF Unlink, Places
  <2>3. k \in Names /\ \A n \in Names \ {k} : Contents(n)' = Contents(n)
    BY <1>0, <1>2, <2>1, <2>2, UnlinkedIs
  <2>4. pc # Idle /\ pc' # Idle
    BY <2>2 DEF Idle
  <2>5. ASSUME NEW g \in 0 .. numFiles PROVE Generation(g)' = Generation(g)
    <3>1. CASE g = 0
      BY <2>4, <3>1, GenerationIs
    <3>2. CASE g # 0 /\ g <= k
      <4>1. g - 1 \in Names \ {k}
        BY <1>2, <2>1, <3>2
      <4>2. Generation(g) = Contents(g - 1)
        BY <2>1, <2>2, <2>4, <3>2, GenerationIs DEF Moving
      <4>3. Generation(g)' = Contents(g - 1)'
        BY <2>2, <2>4, <3>2, GenerationIs DEF Moving
      <4> QED BY <2>3, <4>1, <4>2, <4>3
    <3>3. CASE g # 0 /\ ~(g <= k)
      <4>1. g \in Names \ {k}
        BY <1>2, <2>1, <3>3
      <4>2. Generation(g) = Contents(g)
        BY <2>1, <2>2, <2>4, <3>3, GenerationIs DEF Moving
      <4>3. Generation(g)' = Contents(g)'
        BY <2>2, <2>4, <3>3, GenerationIs DEF Moving
      <4> QED BY <2>3, <4>1, <4>2, <4>3
    <3> QED BY <3>1, <3>2, <3>3
  <2> QED BY <1>0, <2>2, <2>5, GensUnchanged
<1>6. CASE Link
  <2>1. PICK k \in 1 .. numFiles : k = pc.name
    BY <1>0, <1>6 DEF Link, RollerPlace
  <2>2. /\ dir' = [dir EXCEPT ![k] = dir[k - 1]] /\ pc.at = "link" /\ UNCHANGED <<numFiles, data, written>>
        /\ pc' = NextName(k)
    BY <1>1, <1>6, <2>1 DEF Link
  <2>3. /\ k \in Names /\ k - 1 \in Names \ {k}
        /\ Contents(k)' = Contents(k - 1) /\ \A n \in Names \ {k} : Contents(n)' = Contents(n)
    <3>1. k \in Names /\ k - 1 \in Names \ {k}
      BY <1>2, <2>1
    <3> QED BY <1>0, <2>2, <3>1 DEF Disk, Contents, Exists
  <2>4. pc # Idle /\ pc' # Idle
    BY <2>2 DEF Idle, NextName, Broken
  <2>5. ASSUME NEW g \in 0 .. numFiles PROVE Generation(g)' = Generation(g)
    <3>1. CASE g = 0
      BY <2>4, <3>1, GenerationIs
    <3>2. CASE g # 0
      <4>1. Generation(g) = IF g <= k THEN Contents(g - 1) ELSE Contents(g)
        BY <2>1, <2>2, <2>4, <3>2, GenerationIs DEF Moving
      <4>2. Generation(g)' = IF g < k THEN Contents(g - 1)' ELSE Contents(g)'
        <5>1. CASE k = 1
          <6>1. pc'.at \notin Moving
            BY <2>2, <5>1 DEF NextName, Broken, Moving
          <6>2. ~(g < k)
            BY <3>2, <5>1
          <6> QED BY <2>4, <3>2, <6>1, <6>2, GenerationIs
        <5>2. CASE k # 1
          <6>1. pc'.at \in Moving /\ pc'.name = k - 1
            BY <2>2, <5>2 DEF NextName, Moving
          <6>2. g <= k - 1 <=> g < k
            BY <2>1
          <6> QED BY <2>4, <3>2, <6>1, <6>2, GenerationIs
        <5> QED BY <5>1, <5>2
      <4>3. CASE g < k
        <5>1. g - 1 \in Names \ {k} /\ g <= k
          BY <1>2, <2>1, <3>2, <4>3
        <5> QED BY <2>3, <4>1, <4>2, <4>3, <5>1
      <4>4. CASE g = k
        <5>1. ~(g < k) /\ g <= k
          BY <2>1, <4>4
        <5> QED BY <2>3, <4>1, <4>2, <4>4, <5>1
      <4>5. CASE g > k
        <5>1. ~(g < k) /\ ~(g <= k) /\ g \in Names \ {k}
          BY <1>2, <2>1, <4>5
        <5> QED BY <2>3, <4>1, <4>2, <5>1
      <4> QED BY <2>1, <4>3, <4>4, <4>5
    <3> QED BY <3>1, <3>2
  <2> QED BY <1>0, <2>2, <2>5, GensUnchanged
(* The first name is not looked at while its file is compressed.           *)
<1>7. ASSUME pc.at \in {"compress", "copy"}, (pc'.at = "copy" /\ pc'.name = 1) \/ pc' = Broken,
             UNCHANGED numFiles, pc' = Broken => Contents(1)' = Contents(0),
             \A n \in Names \ {1} : Contents(n)' = Contents(n)
      PROVE  Implements
  <2>1. pc # Idle /\ pc' # Idle /\ pc.name = 1
    BY <1>7 DEF Idle, Broken, RollerGens
  <2>2. ASSUME NEW g \in 0 .. numFiles PROVE Generation(g)' = Generation(g)
    <3>1. CASE g = 0
      BY <2>1, <3>1, GenerationIs
    <3>2. CASE g = 1
      <4>1. Generation(g) = Contents(0)
        BY <1>7, <2>1, <3>2, GenerationIs DEF Moving
      <4>2. CASE pc'.at = "copy" /\ pc'.name = 1
        <5>1. Generation(g)' = Contents(0)'
          BY <2>1, <3>2, <4>2, GenerationIs DEF Moving
        <5> QED BY <1>0, <1>7, <4>1, <5>1
      <4>3. CASE pc' = Broken
        <5>1. Generation(g)' = Contents(1)'
          BY <2>1, <3>2, <4>3, GenerationIs DEF Moving, Broken
        <5> QED BY <1>7, <4>1, <4>3, <5>1
      <4> QED BY <1>7, <4>2, <4>3
    <3>3. CASE g # 0 /\ g # 1
      <4>1. ~(g <= 1) /\ g \in Names \ {1}
        BY <1>2, <3>3
      <4>2. Generation(g) = Contents(g)
        BY <1>7, <2>1, <3>3, <4>1, GenerationIs DEF Moving
      <4>3. Generation(g)' = Contents(g)'
        <5>1. CASE pc'.at = "copy" /\ pc'.name = 1
          BY <2>1, <3>3, <4>1, <5>1, GenerationIs DEF Moving
        <5>2. CASE pc' = Broken
          BY <2>1, <3>3, <5>2, GenerationIs DEF Moving, Broken
        <5> QED BY <1>7, <5>1, <5>2
      <4> QED BY <1>7, <4>1, <4>2, <4>3
    <3> QED BY <3>1, <3>2, <3>3
  <2> QED BY <1>0, <1>7, <2>2, GensUnchanged
<1>8. CASE OpenCompressed
  <2>1. /\ pc.at = "compress" /\ dir[1] = 0 /\ numFiles >= 1 /\ UNCHANGED <<numFiles, data, written>>
        /\ \/ dir' = [dir EXCEPT ![1] = FreeInode] /\ pc' = [pc EXCEPT !.at = "copy"]
           \/ ~Exists(0) /\ pc' = Broken /\ UNCHANGED dir
    BY <1>0, <1>1, <1>8 DEF OpenCompressed, RollerPlace
  <2>2. 1 \in Names /\ pc.name = 1
    BY <1>0, <2>1, RollerNumbers DEF RollerGens
  <2>3. CASE dir' = [dir EXCEPT ![1] = FreeInode] /\ pc' = [pc EXCEPT !.at = "copy"]
    <3>1. pc'.at = "copy" /\ pc'.name = 1 /\ pc' # Broken
      BY <1>0, <2>2, <2>3 DEF Places, Broken
    <3>2. \A n \in Names \ {1} : Contents(n)' = Contents(n)
      BY <1>0, <2>1, <2>2, <2>3, FreshIs
    <3> QED BY <1>7, <2>1, <3>1, <3>2
  <2>4. CASE ~Exists(0) /\ pc' = Broken /\ UNCHANGED dir
    <3>1. \A n \in Names : Contents(n)' = Contents(n)
      BY <2>1, <2>4 DEF Contents, Exists
    <3>2. Contents(1)' = Contents(0)
      BY <2>1, <2>2, <2>4, <3>1 DEF Contents, Exists
    <3> QED BY <1>7, <2>1, <2>4, <3>1, <3>2
  <2> QED BY <2>1, <2>3, <2>4
<1>9. CASE Copy
  <2>1. pc.at = "copy" /\ UNCHANGED numFiles
    BY <1>9, Zenon DEF Copy
  <2>2. /\ pc' = pc \/ (pc' = Broken /\ Contents(1)' = Contents(0))
        /\ \A n \in Names \ {1} : Contents(n)' = Contents(n)
    BY <1>1, <1>9, CopyIs DEF Undisturbed
  <2>3. pc.name = 1 /\ pc # Broken
    BY <2>1 DEF RollerGens, Broken
  <2> QED BY <1>7, <2>1, <2>2, <2>3
<1>10. ASSUME pc.at \in {"first", "create"}, pc' = Idle \/ pc'.at = "create", UNCHANGED numFiles,
              pc' = Idle => Contents(0)' = <<>>, \A n \in Names \ {0} : Contents(n)' = Contents(n)
       PROVE  Implements
  <2>1. pc # Idle
    BY <1>10 DEF Idle
  <2>2. ASSUME NEW g \in 0 .. numFiles PROVE Generation(g)' = Generation(g)
    <3>1. CASE g = 0
      BY <1>10, <2>1, <3>1, GenerationIs
    <3>2. CASE g # 0
      <4>1. Generation(g) = Contents(g)
        BY <1>10, <2>1, <3>2, GenerationIs DEF Moving
      <4>2. Generation(g)' = Contents(g)'
        <5>1. CASE pc' = Idle
          BY <5>1, GenerationIs
        <5>2. CASE pc' # Idle
          BY <1>10, <3>2, <5>2, GenerationIs DEF Moving
        <5> QED BY <5>1, <5>2
      <4> QED BY <1>2, <1>10, <3>2, <4>1, <4>2
    <3> QED BY <3>1, <3>2
  <2> QED BY <1>0, <1>10, <2>2, GensUnchanged
<1>11. CASE UnlinkFirst
  <2>1. /\ Unlinked(0) /\ pc.at = "first" /\ UNCHANGED <<numFiles, written>>
        /\ pc' = IF Exists(0) THEN [pc EXCEPT !.at = "create"] ELSE Idle
    BY <1>1, <1>11 DEF UnlinkFirst
  <2>2. Contents(0)' = <<>> /\ \A n \in Names \ {0} : Contents(n)' = Contents(n)
    BY <1>0, <2>1, UnlinkedIs
  <2>3. pc' = Idle \/ pc'.at = "create"
    BY <1>0, <2>1 DEF Places
  <2> QED BY <1>10, <2>1, <2>2, <2>3
<1>12. CASE Create
  <2>1. /\ dir' = [dir EXCEPT ![0] = FreeInode] /\ pc.at = "create" /\ dir[0] = 0 /\ pc' = Idle
        /\ UNCHANGED <<numFiles, data, written>>
    BY <1>0, <1>1, <1>12 DEF Create, RollerPlace
  <2>2. Contents(0)' = <<>> /\ \A n \in Names \ {0} : Contents(n)' = Contents(n)
    BY <1>0, <2>1, FreshIs
  <2> QED BY <1>10, <2>1, <2>2
<1>13. CASE UNCHANGED vars
  <2>1. UNCHANGED <<numFiles, dir, data, pc>>
    BY <1>13 DEF vars
  <2>2. \A g \in 0 .. numFiles : Generation(g)' = Generation(g)
    BY <2>1 DEF Generation, Contents, Exists, Idle
  <2> QED BY <1>0, <2>1, <2>2, GensUnchanged
<1> QED BY <1>1, <1>3, <1>4, <1>5, <1>6, <1>8, <1>9, <1>11, <1>12, <1>13 DEF Next

LEMMA LogGenerationIs ==
  ASSUME NEW g
  PROVE  /\ logPc.at = "rename" =>
              Logger!Generation(g) = IF g = 0 THEN <<>>
                                     ELSE IF g <= logPc.name + 1 THEN files[g - 1] ELSE files[g]
         /\ logPc.at = "first" =>
              Logger!Generation(g) = IF g = 0 THEN <<>> ELSE IF g = 1 THEN files[0] ELSE files[g]
         /\ logPc.at \notin {"rename", "first"} =>
              Logger!Generation(g) = IF g = 0 THEN files[0] \o buffer ELSE files[g]
         /\ logPc'.at = "rename" =>
              Logger!Generation(g)' = IF g = 0 THEN <<>>
                                      ELSE IF g <= logPc'.name + 1 THEN files'[g - 1] ELSE files'[g]
         /\ logPc'.at = "first" =>
              Logger!Generation(g)' = IF g = 0 THEN <<>> ELSE IF g = 1 THEN files'[0] ELSE files'[g]
         /\ logPc'.at \notin {"rename", "first"} =>
              Logger!Generation(g)' = IF g = 0 THEN files'[0] \o buffer' ELSE files'[g]
  BY DEF Logger!Generation

(* As long as nothing fails no generation is empty unless all older ones   *)
(* are, nothing is buffered once a roll over has closed the file, and none *)
(* is begun without a record.                                              *)
LoggerChain ==
  Logger!Undisturbed =>
    /\ \A g \in 1 .. numRolloverFiles :
         Logger!Generation(g) = <<>> => Logger!Generation(g + 1) = <<>>
    /\ logPc.at \in {"rename", "first", "open"} => buffer = <<>>
    /\ logPc.at = "close" => Logger!Generation(0) # <<>>
    /\ logPc.at = "rename" => (files[logPc.name] = <<>> => files[logPc.name + 1] = <<>>)

LEMMA LogCalmBefore ==
  ASSUME LoggerTyping, [Logger!Next]_loggerVars, Logger!Undisturbed'
  PROVE  /\ Logger!Undisturbed /\ Steady /\ ~Logger!Fail /\ ~Logger!Crash
         /\ \A n \in 0 .. LoggerTop : ~Logger!SetNumRolloverFiles(n)
         /\ \A n \in Sizes : ~Logger!SetRolloverSize(n)
<1>0. logBudget \in LogBudgets /\ Faults \in Nat /\ Crashes \in Nat /\ Changes \in Nat
  BY BudgetIs, LoggerNumbers
<1>1. /\ logBudget'.faults = Faults /\ logBudget'.crashes = Crashes /\ logBudget'.changes = Changes
  BY DEF Logger!Undisturbed
<1>2. ~(logBudget.faults > 0 /\ logBudget' = [logBudget EXCEPT !.faults = @ - 1])
  BY <1>0, <1>1 DEF LogBudgets
<1>3. ~(logBudget.crashes > 0 /\ logBudget' = [logBudget EXCEPT !.crashes = @ - 1])
  BY <1>0, <1>1 DEF LogBudgets
<1>4. ~(logBudget.changes > 0 /\ logBudget' = [logBudget EXCEPT !.changes = @ - 1])
  BY <1>0, <1>1 DEF LogBudgets
<1>5. /\ ~Logger!Fail /\ ~Logger!Crash /\ \A n \in 0 .. LoggerTop : ~Logger!SetNumRolloverFiles(n)
      /\ \A n \in Sizes : ~Logger!SetRolloverSize(n)
  BY <1>2, <1>3, <1>4 DEF Logger!Fail, Logger!Crash, Logger!SetNumRolloverFiles,
                          Logger!SetRolloverSize
<1>6. logBudget' = logBudget
  BY <1>5 DEF Logger!Next, Logger!Open, Logger!Close, Logger!Flush, Logger!Spill, Logger!Log,
              Logger!RollClose, Logger!Rename, Logger!RenameFirst, Logger!Reopen,
              Logger!OpenFile, Logger!CloseNoLock, Logger!Put, loggerVars
<1> QED BY <1>5, <1>6 DEF Logger!Undisturbed, Steady

(* Records go from the buffer to the file in their order.                  *)
LEMMA FlushedIsLogged ==
  ASSUME LoggerTyping, NEW n \in 0 .. Len(buffer),
         files' = [files EXCEPT ![0] = @ \o SubSeq(buffer, 1, n)],
         buffer' = SubSeq(buffer, n + 1, Len(buffer))
  PROVE  /\ files'[0] \o buffer' = files[0] \o buffer
         /\ \A m \in Logger!Names \ {0} : files'[m] = files[m]
<1> DEFINE a == SubSeq(buffer, 1, n)
           b == SubSeq(buffer, n + 1, Len(buffer))
<1>1. a \in Seq(Nat) /\ b \in Seq(Nat) /\ a \o b = buffer
  BY Halves DEF LoggerTyping
<1>2. files[0] \in Seq(Nat) /\ files'[0] = files[0] \o a
      /\ \A m \in Logger!Names \ {0} : files'[m] = files[m]
  BY LoggerNumbers DEF LoggerTyping
<1>3. buffer' = b
  OBVIOUS
<1> HIDE DEF a, b
<1>4. (files[0] \o a) \o b = files[0] \o (a \o b)
  BY <1>1, <1>2, ConcatThrice
<1> QED BY <1>1, <1>2, <1>3, <1>4

LEMMA WholeBuffer ==
  ASSUME LoggerTyping, Logger!Flushed(Len(buffer))
  PROVE  /\ files'[0] \o buffer' = files[0] \o buffer /\ buffer' = <<>>
         /\ files'[0] = files[0] \o buffer
         /\ \A m \in Logger!Names \ {0} : files'[m] = files[m]
<1>1. Len(buffer) \in 0 .. Len(buffer) /\ SubSeq(buffer, Len(buffer) + 1, Len(buffer)) = <<>>
      /\ buffer \in Seq(Nat) /\ files[0] \in Seq(Nat)
  <2>1. Len(buffer) \in Nat /\ buffer \in Seq(Nat) /\ files[0] \in Seq(Nat)
    BY SetOf, LoggerNumbers DEF LoggerTyping
  <2> QED BY <2>1, SubSeqEmpty
<1>2. SubSeq(buffer, 1, Len(buffer)) = buffer
  BY <1>1, SubSeqFull
<1> QED BY <1>1, <1>2, FlushedIsLogged, LoggerNumbers DEF Logger!Flushed, LoggerTyping

LEMMA LogGensUnchanged ==
  ASSUME UNCHANGED numRolloverFiles, numRolloverFiles \in Nat,
         \A g \in 0 .. numRolloverFiles + 1 : Logger!Generation(g)' = Logger!Generation(g)
  PROVE  /\ Logger!Implements
         /\ (\A g \in 1 .. numRolloverFiles :
               Logger!Generation(g) = <<>> => Logger!Generation(g + 1) = <<>>) =>
            (\A g \in 1 .. numRolloverFiles' :
               Logger!Generation(g)' = <<>> => Logger!Generation(g + 1)' = <<>>)
<1>1. \A i \in 1 .. numRolloverFiles + 2 : i - 1 \in 0 .. numRolloverFiles + 1
  OBVIOUS
<1>2. UNCHANGED Logger!Generations
  BY <1>1 DEF Logger!Generations
<1>3. \A g \in 1 .. numRolloverFiles : g \in 0 .. numRolloverFiles + 1 /\ g + 1 \in 0 .. numRolloverFiles + 1
  OBVIOUS
<1> QED BY <1>2, <1>3 DEF Logger!Implements

LEMMA LoggerImplements ==
  ASSUME LoggerInv, LoggerChain, [Logger!Next]_loggerVars
  PROVE  LoggerChain' /\ Logger!Implements
<1> USE DEF Logger!Idle
<1> SUFFICES ASSUME Logger!Undisturbed' PROVE LoggerChain' /\ Logger!Implements
  BY DEF LoggerChain, Logger!Implements
<1> DEFINE N == numRolloverFiles
           G(g) == Logger!Generation(g)
<1>0. LoggerTyping /\ LoggerOrder /\ LoggerHoles
  BY DEF LoggerInv
<1>1. /\ Logger!Undisturbed /\ Steady /\ ~Logger!Fail /\ ~Logger!Crash
      /\ \A n \in 0 .. LoggerTop : ~Logger!SetNumRolloverFiles(n)
      /\ \A n \in Sizes : ~Logger!SetRolloverSize(n)
  BY <1>0, LogCalmBefore
<1>2. /\ N \in 0 .. LoggerTop /\ N \in Nat /\ logged \in Nat /\ buffer \in Seq(Nat)
      /\ files \in [Logger!Names -> Seq(Nat)]
      /\ \A g \in 0 .. N + 1 : g \in Logger!Names /\ (g = 0 \/ g \in Logger!Names \ {0})
      /\ \A g \in 1 .. N + 1 : g \in Logger!Names \ {0} /\ g - 1 \in Logger!Names /\ g # 0
      /\ \A g \in 0 .. N + 1 : g = 0 \/ g \in 1 .. N + 1
  BY <1>0, LoggerNumbers DEF LoggerTyping
<1>3. /\ \A g \in 1 .. N : G(g) = <<>> => G(g + 1) = <<>>
      /\ logPc.at \in {"rename", "first", "open"} => buffer = <<>>
      /\ logPc.at = "close" => G(0) # <<>>
      /\ logPc.at = "rename" => (files[logPc.name] = <<>> => files[logPc.name + 1] = <<>>)
  BY <1>1 DEF LoggerChain
(* What leaves each generation as it is.                                   *)
<1>4. ASSUME UNCHANGED numRolloverFiles, \A g \in 0 .. N + 1 : G(g)' = G(g),
             logPc'.at \in {"rename", "first", "open"} => buffer' = <<>>,
             logPc'.at = "close" => logPc.at = "close",
             logPc'.at = "rename" => (files'[logPc'.name] = <<>> => files'[logPc'.name + 1] = <<>>)
      PROVE  LoggerChain' /\ Logger!Implements
  <2>1. /\ Logger!Implements
        /\ \A g \in 1 .. numRolloverFiles' :
             Logger!Generation(g)' = <<>> => Logger!Generation(g + 1)' = <<>>
    BY <1>2, <1>3, <1>4, LogGensUnchanged
  <2>2. logPc'.at = "close" => Logger!Generation(0)' # <<>>
    BY <1>2, <1>3, <1>4
  <2> QED BY <1>4, <2>1, <2>2 DEF LoggerChain
(* What leaves the records as they are, or hands them to the file.         *)
<1>5. ASSUME UNCHANGED numRolloverFiles, \A m \in Logger!Names \ {0} : files'[m] = files[m],
             files'[0] \o buffer' = files[0] \o buffer,
             logPc.at \notin {"rename", "first"}, logPc'.at \notin {"rename", "first"},
             logPc'.at = "open" => buffer' = <<>>,
             logPc'.at = "close" => logPc.at = "close"
      PROVE  LoggerChain' /\ Logger!Implements
  <2>1. ASSUME NEW g \in 0 .. N + 1 PROVE G(g)' = G(g)
    <3>1. G(g) = IF g = 0 THEN files[0] \o buffer ELSE files[g]
      BY <1>5, LogGenerationIs
    <3>2. G(g)' = IF g = 0 THEN files'[0] \o buffer' ELSE files'[g]
      BY <1>5, LogGenerationIs
    <3> QED BY <1>2, <1>5, <3>1, <3>2
  <2> HIDE DEF G
  <2> QED BY <1>4, <1>5, <2>1
<1>6. CASE Logger!Open
  <2>1. UNCHANGED <<numRolloverFiles, logPc>> /\ logPc.at = "idle" /\ Logger!Flushed(Len(buffer))
    BY <1>1, <1>6 DEF Logger!Open
  <2> QED BY <1>0, <1>5, <2>1, WholeBuffer
<1>c. ASSUME NEW to, NEW else, Logger!CloseNoLock(to, else)
      PROVE  Logger!Flushed(Len(buffer)) /\ logPc' = to
  BY <1>1, <1>c DEF Logger!CloseNoLock
<1>7. CASE Logger!Close
  <2>1. UNCHANGED numRolloverFiles /\ logPc.at = "idle" /\ logPc'.at = "idle" /\ Logger!Flushed(Len(buffer))
    <3>1. logPc = Logger!Idle /\ Logger!CloseNoLock(Logger!Idle, Logger!Idle) /\ UNCHANGED numRolloverFiles
      BY <1>7 DEF Logger!Close
    <3>2. Logger!Flushed(Len(buffer)) /\ logPc' = Logger!Idle
      BY <1>c, <3>1
    <3> QED BY <3>1, <3>2
  <2> QED BY <1>0, <1>5, <2>1, WholeBuffer
<1>8. CASE Logger!Flush
  <2>1. UNCHANGED <<numRolloverFiles, logPc>> /\ logPc.at = "idle" /\ Logger!Flushed(Len(buffer))
    BY <1>1, <1>8 DEF Logger!Flush
  <2> QED BY <1>0, <1>5, <2>1, WholeBuffer
<1>9. CASE Logger!Spill
  <2>1. /\ UNCHANGED <<numRolloverFiles, logPc>> /\ buffer # <<>>
        /\ files' = [files EXCEPT ![0] = @ \o SubSeq(buffer, 1, 1)]
        /\ buffer' = SubSeq(buffer, 1 + 1, Len(buffer))
    BY <1>9 DEF Logger!Spill, Logger!Flushed
  <2>2. 1 \in 0 .. Len(buffer)
    <3>1. Len(buffer) \in Nat \ {0}
      BY <1>2, <2>1, Ends
    <3> QED BY <3>1
  <2>3. logPc.at \notin {"rename", "first", "open"}
    BY <1>3, <2>1
  <2> QED BY <1>0, <1>5, <2>1, <2>2, <2>3, FlushedIsLogged
<1>10. CASE Logger!Log
  <2> DEFINE r == logged + 1
             s == files[0] \o buffer
  <2>1. /\ UNCHANGED numRolloverFiles /\ logPc.at = "idle" /\ logPc'.at \in {"idle", "close"}
        /\ logged < MaxRecords /\ logged' = r
        /\ IF block THEN buffer' = Append(buffer, r) /\ UNCHANGED files
           ELSE files' = [files EXCEPT ![0] = Append(@, r)] /\ UNCHANGED buffer
    BY <1>1, <1>10 DEF Logger!Log, Logger!Put
  <2>2. r \in 1 .. MaxRecords /\ r \in Nat
    BY <1>2, <2>1, RollerAssumption
  <2>3. files[0] \in Seq(Nat) /\ s \in Seq(Nat) /\ (~block => buffer = <<>>)
    BY <1>0, <1>2, BlockIs, LoggerNumbers
  <2>4. files'[0] \o buffer' = Append(s, r)
    <3>1. CASE block
      <4>1. files[0] \o Append(buffer, r) = Append(files[0] \o buffer, r)
        <5> DEFINE t == <<r>>
        <5>2. Append(buffer, r) = buffer \o t /\ Append(s, r) = s \o t
          BY <1>2, <2>2, <2>3, SetOfAppend
        <5>3. t \in Seq(Nat)
          BY <2>2
        <5> HIDE DEF t, r
        <5>4. (files[0] \o buffer) \o t = files[0] \o (buffer \o t)
          <6> DEFINE w == files[0]
          <6>1. w \in Seq(Nat) /\ buffer \in Seq(Nat)
            BY <1>2, <2>3
          <6> HIDE DEF w
          <6>2. (w \o buffer) \o t = w \o (buffer \o t)
            BY ONLY <5>3, <6>1, ConcatThrice
          <6> QED BY ONLY <6>2 DEF w
        <5> QED BY <5>2, <5>4
      <4> QED BY <2>1, <3>1, <4>1
    <3>2. CASE ~block
      <4>1. files'[0] = Append(files[0], r) /\ buffer' = <<>> /\ buffer = <<>>
        BY <1>2, <2>1, <2>3, <3>2, LoggerNumbers
      <4>2. Append(files[0], r) \in Seq(Nat)
        BY <2>2, <2>3
      <4>3. \A a \in Seq(Nat) : a \o <<>> = a
        BY ConcatEmptySeq
      <4> QED BY <2>3, <4>1, <4>2, <4>3
    <3> QED BY <3>1, <3>2
  <2>5. \A m \in Logger!Names \ {0} : files'[m] = files[m]
    BY <1>2, <2>1
  <2>6. G(0) = s /\ G(0)' = Append(s, r)
    BY <2>1, <2>4, LogGenerationIs
  <2>7. \A g \in 1 .. N + 1 : G(g)' = G(g)
    <3> SUFFICES ASSUME NEW g \in 1 .. N + 1 PROVE G(g)' = G(g)
      OBVIOUS
    <3>1. g # 0 /\ g \in Logger!Names \ {0}
      BY <1>2
    <3>2. G(g) = files[g] /\ G(g)' = files'[g]
      BY <2>1, <3>1, LogGenerationIs
    <3> QED BY <2>5, <3>1, <3>2
  <2>8. G(0)' # <<>>
    BY <2>2, <2>3, <2>6
  <2> HIDE DEF G, s, r
  <2>9. LoggerChain'
    <3>1. \A g \in 1 .. N : g \in 1 .. N + 1 /\ g + 1 \in 1 .. N + 1
      BY <1>2
    <3>2. \A g \in 1 .. N' : G(g)' = <<>> => G(g + 1)' = <<>>
      BY <1>3, <2>1, <2>7, <3>1
    <3> QED BY <2>1, <2>8, <3>2 DEF LoggerChain, G
  <2>10. Logger!Generations' = [Logger!Generations EXCEPT ![1] = Append(@, r)]
    <3>1. /\ Logger!Generations = [j \in 1 .. N + 2 |-> G(j - 1)]
          /\ Logger!Generations' = [j \in 1 .. N + 2 |-> G(j - 1)']
      BY <2>1 DEF Logger!Generations, G
    <3>2. ASSUME NEW j \in 1 .. N + 2
          PROVE  G(j - 1)' = IF j = 1 THEN Append(G(j - 1), r) ELSE G(j - 1)
      <4>1. CASE j = 1
        BY <2>6, <4>1
      <4>2. CASE j # 1
        <5>1. j - 1 \in 1 .. N + 1
          BY <1>2, <4>2
        <5> QED BY <2>7, <4>2, <5>1
      <4> QED BY <4>1, <4>2
    <3>3. 1 \in 1 .. N + 2
      BY <1>2
    <3> QED BY <3>1, <3>2, <3>3
  <2>11. Logger!Generations # <<>>
    <3>1. DOMAIN Logger!Generations = 1 .. N + 2 /\ 1 \in 1 .. N + 2
      BY <1>2 DEF Logger!Generations
    <3>2. DOMAIN <<>> = {}
      OBVIOUS
    <3> QED BY <3>1, <3>2
  <2> QED BY <2>2, <2>9, <2>10, <2>11 DEF Logger!Implements, Logger!Promise!Next, Logger!Promise!Write
<1>11. CASE Logger!RollClose
  <2>1. /\ UNCHANGED numRolloverFiles /\ logPc.at = "close" /\ Logger!Flushed(Len(buffer))
        /\ logPc' = IF N = 0 THEN [at |-> "open", name |-> 0] ELSE [at |-> "rename", name |-> N]
    BY <1>c, <1>11 DEF Logger!RollClose
  <2>2. /\ files'[0] \o buffer' = files[0] \o buffer /\ buffer' = <<>>
        /\ files'[0] = files[0] \o buffer
        /\ \A m \in Logger!Names \ {0} : files'[m] = files[m]
    BY <1>0, <2>1, WholeBuffer
  <2>3. CASE N = 0
    <3>1. logPc'.at = "open"
      BY <2>1, <2>3
    <3> QED BY <1>5, <2>1, <2>2, <3>1
  <2>4. CASE N # 0
    <3>1. logPc'.at = "rename" /\ logPc'.name = N
      BY <2>1, <2>4
    <3>2. G(0) = files[0] \o buffer /\ \A g \in 1 .. N + 1 : G(g) = files[g]
      BY <1>2, <2>1, LogGenerationIs
    <3>3. G(0)' = <<>> /\ \A g \in 1 .. N + 1 : G(g)' = files'[g - 1]
      <4>1. G(0)' = <<>>
        BY <3>1, LogGenerationIs
      <4>2. ASSUME NEW g \in 1 .. N + 1 PROVE G(g)' = files'[g - 1]
        <5>1. g # 0 /\ g <= logPc'.name + 1
          BY <1>2, <3>1
        <5> QED BY <3>1, <5>1, LogGenerationIs
      <4> QED BY <4>1, <4>2
    <3>4. ASSUME NEW g \in 1 .. N + 1 PROVE G(g)' = G(g - 1)
      <4>1. CASE g = 1
        <5>1. g - 1 = 0
          BY <4>1
        <5>2. G(g)' = files'[0]
          BY <3>3, <5>1
        <5> QED BY <2>2, <3>2, <5>1, <5>2
      <4>2. CASE g # 1
        <5>1. g - 1 \in 1 .. N + 1 /\ g - 1 \in Logger!Names \ {0}
          BY <1>2, <4>2
        <5> QED BY <2>2, <3>2, <3>3, <5>1
      <4> QED BY <4>1, <4>2
    <3>5. \A g \in 0 .. N + 1 : G(g) \in Seq(Nat)
      <4>1. files[0] \o buffer \in Seq(Nat)
        BY <1>2, LoggerNumbers
      <4> QED BY <1>2, <3>2, <4>1
    <3> HIDE DEF G
    <3> DEFINE e == <<>>
               f == Logger!Generations
               h == [j \in 1 .. N + 2 |-> IF j = 1 THEN e ELSE G(j - 2)]
    <3>6. e \in Seq(Nat) /\ \A i \in 1 .. N + 2 : i - 1 \in 0 .. N + 1 /\ (i # 1 => i - 2 \in 0 .. N + 1)
      <4>1. e \in Seq(Nat)
        BY SetOfEmpty
      <4>2. \A i \in 1 .. N + 2 : i - 1 \in 0 .. N + 1 /\ (i # 1 => i - 2 \in 0 .. N + 1)
        BY <1>2
      <4> QED BY <4>1, <4>2
    <3>7. f = [j \in 1 .. N + 2 |-> G(j - 1)]
      BY DEF Logger!Generations, G
    <3>8. Logger!Generations' = h
      <4>1. ASSUME NEW j \in 1 .. N + 2 PROVE G(j - 1)' = h[j]
        <5>1. CASE j = 1
          BY <3>3, <5>1
        <5>2. CASE j # 1
          <6>1. j - 1 \in 1 .. N + 1 /\ (j - 1) - 1 = j - 2
            BY <1>2, <5>2
          <6>2. G(j - 1)' = G(j - 2)
            BY <3>4, <6>1
          <6> QED BY <5>2, <6>2
        <5> QED BY <5>1, <5>2
      <4> QED BY <2>1, <4>1 DEF Logger!Generations, G
    <3> HIDE DEF e, f
    <3>9. f \in [1 .. (N + 1) + 1 -> Seq(Nat)] /\ h \in [1 .. (N + 1) + 1 -> Seq(Nat)]
      <4>1. 1 .. (N + 1) + 1 = 1 .. N + 2
        BY <1>2
      <4>2. f \in [1 .. N + 2 -> Seq(Nat)]
        BY <3>5, <3>6, <3>7
      <4>3. h \in [1 .. N + 2 -> Seq(Nat)]
        BY <3>5, <3>6
      <4> QED BY <4>1, <4>2, <4>3
    <3>10. h[1] = e /\ \A i \in 2 .. (N + 1) + 1 : h[i] = f[i - 1]
      <4>1. \A i \in 2 .. (N + 1) + 1 : i - 1 \in 1 .. N + 2 /\ (i - 1) - 1 = i - 2 /\ i # 1
        BY <1>2
      <4>2. 1 \in 1 .. N + 2 /\ \A i \in 2 .. (N + 1) + 1 : i \in 1 .. N + 2
        BY <1>2
      <4> QED BY <3>7, <4>1, <4>2
    <3> HIDE DEF h
    <3>11. N + 1 \in Nat
      BY <1>2
    <3>12. h = SubSeq(<<e>> \o f, 1, Len(f))
      BY ONLY <3>6, <3>9, <3>10, <3>11, RollIs
    <3>13. Logger!Implements
      BY <3>8, <3>12 DEF Logger!Implements, Logger!Promise!Next, Logger!Promise!Roll, e, f
    <3>14. ASSUME NEW g \in 1 .. N, G(g)' = <<>> PROVE G(g + 1)' = <<>>
      <4>1. G(g)' = G(g - 1) /\ G(g + 1)' = G(g) /\ (g # 1 => g - 1 \in 1 .. N /\ (g - 1) + 1 = g)
        <5>1. g \in 1 .. N + 1 /\ g + 1 \in 1 .. N + 1 /\ (g + 1) - 1 = g
              /\ (g # 1 => g - 1 \in 1 .. N /\ (g - 1) + 1 = g)
          BY <1>2
        <5> QED BY <3>4, <5>1
      <4>2. g # 1
        BY <1>3, <2>1, <3>14, <4>1
      <4> QED BY <1>3, <3>14, <4>1, <4>2
    <3>15. files'[N] = <<>> => files'[N + 1] = <<>>
      <4>1. N \in 1 .. N /\ N \in 1 .. N + 1 /\ N + 1 \in 1 .. N + 1
        BY <1>2, <2>4
      <4>2. G(N) = files[N] /\ G(N + 1) = files[N + 1] /\ files'[N] = files[N] /\ files'[N + 1] = files[N + 1]
        BY <1>2, <2>2, <3>2, <4>1
      <4> QED BY <1>3, <4>1, <4>2
    <3>16. LoggerChain'
      <4>1. \A g \in 1 .. numRolloverFiles' : G(g)' = <<>> => G(g + 1)' = <<>>
        BY <2>1, <3>14
      <4> QED BY <2>2, <3>1, <3>15, <4>1 DEF LoggerChain, G
    <3> QED BY <3>13, <3>16
  <2> QED BY <2>3, <2>4
<1>12. CASE Logger!Rename
  <2>1. PICK k \in 1 .. N : k = logPc.name
    BY <1>0, <1>12 DEF Logger!Rename, LoggerTyping
  <2>2. /\ logPc.at = "rename" /\ UNCHANGED <<numRolloverFiles, buffer>>
        /\ IF files[k] # <<>> THEN Logger!Renamed(k, k + 1) ELSE UNCHANGED files
        /\ logPc' = IF k = 1 THEN [at |-> "first", name |-> 0] ELSE [logPc EXCEPT !.name = @ - 1]
    BY <1>1, <1>12, <2>1 DEF Logger!Rename
  <2>3. /\ k # 1 => logPc'.at = "rename" /\ logPc'.name = k - 1 /\ (k - 1) + 1 = k
        /\ k = 1 => logPc'.at = "first"
        /\ k \in Logger!Names /\ k + 1 \in Logger!Names /\ k # k + 1
    <3>1. logPc \in LogPlaces
      BY <1>0 DEF LoggerTyping
    <3>0. logPc' = (IF k = 1 THEN [at |-> "first", name |-> 0] ELSE [logPc EXCEPT !.name = logPc.name - 1])
      BY ONLY <2>2
    <3>2. k = 1 => logPc'.at = "first"
      BY ONLY <3>0
    <3>3. k # 1 => logPc'.at = "rename" /\ logPc'.name = k - 1
      <4>1. k # 1 => logPc'.at = logPc.at /\ logPc'.name = logPc.name - 1
        BY ONLY <3>0, <3>1 DEF LogPlaces
      <4> QED BY ONLY <2>1, <2>2, <4>1
    <3>4. k \in Logger!Names /\ k + 1 \in Logger!Names /\ k # k + 1
      BY <1>2, <2>1, LoggerNumbers
    <3>5. (k - 1) + 1 = k
      BY <1>2, <2>1
    <3> QED BY ONLY <3>2, <3>3, <3>4, <3>5
  <2>4. /\ files'[k + 1] = files[k] /\ files'[k] = <<>>
        /\ \A m \in Logger!Names \ {k, k + 1} : files'[m] = files[m]
    <3>1. CASE files[k] # <<>>
      BY <1>2, <2>2, <2>3, <3>1 DEF Logger!Renamed
    <3>2. CASE files[k] = <<>>
      BY <1>3, <2>1, <2>2, <3>2
    <3> QED BY <3>1, <3>2
  <2>5. ASSUME NEW g \in 0 .. N + 1 PROVE G(g)' = G(g)
    <3>1. CASE g = 0
      BY <2>2, <2>3, <3>1, LogGenerationIs
    <3>2. CASE g # 0
      <4>1. G(g) = IF g <= k + 1 THEN files[g - 1] ELSE files[g]
        BY <2>1, <2>2, <3>2, LogGenerationIs
      <4>2. G(g)' = IF g <= k THEN files'[g - 1] ELSE files'[g]
        <5>1. CASE k = 1
          <6>1. G(g)' = IF g = 1 THEN files'[0] ELSE files'[g]
            BY <2>3, <3>2, <5>1, LogGenerationIs
          <6>2. g <= k <=> g = 1
            BY <1>2, <3>2, <5>1
          <6>3. g = 1 => g - 1 = 0
            OBVIOUS
          <6> QED BY <6>1, <6>2, <6>3
        <5>2. CASE k # 1
          BY <2>3, <3>2, <5>2, LogGenerationIs
        <5> QED BY <5>1, <5>2
      <4>3. CASE g <= k
        <5>1. g \in 1 .. N + 1
          BY <1>2, <3>2
        <5>2. g <= k + 1 /\ g - 1 # k /\ g - 1 # k + 1
          BY <4>3, <5>1
        <5>3. g - 1 \in Logger!Names \ {k, k + 1}
          BY <1>2, <5>1, <5>2
        <5> QED BY <2>4, <4>1, <4>2, <4>3, <5>2, <5>3
      <4>4. CASE g = k + 1
        <5>1. ~(g <= k) /\ g <= k + 1 /\ g - 1 = k
          BY <2>1, <4>4
        <5> QED BY <2>4, <4>1, <4>2, <4>4, <5>1
      <4>5. CASE g > k + 1
        <5>1. ~(g <= k) /\ ~(g <= k + 1) /\ g # k /\ g # k + 1
          BY <2>1, <4>5
        <5>2. g \in Logger!Names \ {k, k + 1}
          BY <1>2, <5>1
        <5> QED BY <2>4, <4>1, <4>2, <5>1, <5>2
      <4> QED BY <2>1, <4>3, <4>4, <4>5
    <3> QED BY <3>1, <3>2
  <2>6. buffer' = <<>> /\ logPc'.at # "close"
    BY <1>3, <2>2, <2>3
  <2>7. logPc'.at = "rename" => files'[logPc'.name + 1] = <<>>
    BY <2>3, <2>4
  <2> HIDE DEF G
  <2> QED BY <1>4, <2>2, <2>5, <2>6, <2>7
<1>13. CASE Logger!RenameFirst
  <2>1. /\ logPc.at = "first" /\ UNCHANGED <<numRolloverFiles, buffer>> /\ Logger!Renamed(0, 1)
        /\ logPc'.at \in {"open", "idle"} /\ N >= 1
    BY <1>0, <1>1, <1>13 DEF Logger!RenameFirst, LoggerTyping
  <2>2. files'[0] = <<>> /\ files'[1] = files[0] /\ \A m \in Logger!Names \ {0, 1} : files'[m] = files[m]
    BY <1>2, <2>1, LoggerNumbers DEF Logger!Renamed
  <2>3. buffer' = <<>> /\ files'[0] \o buffer' = <<>>
    <3>1. buffer' = <<>>
      BY <1>3, <2>1
    <3>2. <<>> \in Seq(Nat)
      BY SetOfEmpty
    <3> QED BY <2>2, <3>1, <3>2, ConcatEmptySeq
  <2>4. ASSUME NEW g \in 0 .. N + 1 PROVE G(g)' = G(g)
    <3>1. G(g)' = IF g = 0 THEN files'[0] \o buffer' ELSE files'[g]
      BY <2>1, LogGenerationIs
    <3>2. G(g) = IF g = 0 THEN <<>> ELSE IF g = 1 THEN files[0] ELSE files[g]
      BY <2>1, LogGenerationIs
    <3> QED BY <1>2, <2>2, <2>3, <3>1, <3>2
  <2> HIDE DEF G
  <2> QED BY <1>4, <2>1, <2>3, <2>4
<1>14. CASE Logger!Reopen
  <2>1. UNCHANGED <<numRolloverFiles, buffer, files>> /\ logPc.at = "open" /\ logPc'.at = "idle"
    BY <1>14 DEF Logger!Reopen
  <2> QED BY <1>5, <2>1
<1>15. CASE UNCHANGED loggerVars
  <2>1. UNCHANGED <<numRolloverFiles, buffer, files, logPc>>
    BY <1>15 DEF loggerVars
  <2>2. \A g \in 0 .. N + 1 : G(g)' = G(g)
    BY <2>1 DEF Logger!Generation
  <2> HIDE DEF G
  <2> QED BY <1>3, <1>4, <2>1, <2>2
<1> QED BY <1>1, <1>6, <1>7, <1>8, <1>9, <1>10, <1>11, <1>12, <1>13, <1>14, <1>15 DEF Logger!Next

LEMMA ChainInit == Logger!Init => LoggerChain
<1> SUFFICES ASSUME Logger!Init PROVE LoggerChain
  OBVIOUS
<1>1. files = [n \in Logger!Names |-> <<>>] /\ logPc.at = "idle" /\ numRolloverFiles \in 0 .. LoggerTop
  BY DEF Logger!Init, Logger!Idle
<1>2. ASSUME NEW g \in 1 .. numRolloverFiles PROVE Logger!Generation(g + 1) = <<>>
  <2>1. g + 1 \in Logger!Names /\ g + 1 # 0
    BY <1>1, LoggerNumbers
  <2> QED BY <1>1, <2>1, LogGenerationIs
<1> QED BY <1>1, <1>2 DEF LoggerChain

LEMMA GensInit == Init => RollerGens
  BY RollerNumbers DEF Init, RollerGens, Idle

(* Both classes roll their files over as the one step of RotatedLog, as    *)
(* long as nothing fails and no file is compressed in part only, for any   *)
(* number of files and of records.                                         *)
THEOREM RotationImplements == MCSpec => ImplementsRotatedLog
<1>1. MCInit => RollerGens /\ LoggerChain
  BY GensInit, ChainInit DEF MCInit
<1>2. (RollerInv /\ LoggerInv) /\ (RollerGens /\ LoggerChain) /\ [MCNext]_allVars
        => (RollerGens /\ LoggerChain)' /\ [Implements /\ Logger!Implements]_allVars
  BY OwnSteps, GensStep, RollerImplements, LoggerImplements
<1> QED BY <1>1, <1>2, FilesInvariance, PTL DEF MCSpec, ImplementsRotatedLog
=============================================================================
