-------------------------- MODULE WriteBackProofs --------------------------
(***************************************************************************)
(* Proof that IInv is an invariant of WriteBack, for any sources and       *)
(* functions, either mode, with or without failing writes, and any number  *)
(* of stopped and repeated runs; and of the safety properties it implies.  *)
(***************************************************************************)
EXTENDS WriteBack, TLAPS

LEMMA OriginalContent == Original \in Content /\ Absent \in Content /\ Broken \in Content
  BY DEF Original, Absent, Broken, NoGen, Content

LEMMA RewrittenContent ==
    ASSUME TypeOK, NEW s \in Source
    PROVE  Rewritten(s) \in Content
  <1>1. disk[s] \in Content
    BY DEF TypeOK
  <1>2. disk[s].gen \in [Fun -> Nat] /\ disk[s].redirected \in BOOLEAN
    BY <1>1 DEF Content
  <1>3. (disk[s].redirected \/ calls[s] # {}) \in BOOLEAN
    OBVIOUS
  <1>4. [f \in Fun |-> disk[s].gen[f] +
            IF f \in ToGenerate /\ home[f] = s THEN 1 ELSE 0] \in [Fun -> Nat]
    BY <1>2
  <1> QED
    BY <1>3, <1>4, OriginalContent DEF Rewritten, Content

(* The new version of a source depends on nothing but the sources. *)
LEMMA RewrittenSame ==
    ASSUME UNCHANGED <<calls, home, disk>>, NEW s \in Source
    PROVE  Rewritten(s)' = Rewritten(s)
  BY DEF Rewritten, ToGenerate, Used, Existing, Whole

LEMMA InitInv == Init => IInv
  <1> SUFFICES ASSUME Init PROVE IInv
    OBVIOUS
  <1>1. TypeOK
    BY OriginalContent DEF Init, TypeOK
  <1>2. ControlInv /\ InPlaceInv /\ GrowInv
    BY DEF Init, ControlInv, InPlaceInv, GrowInv, Running
  <1>3. WholeInv
    BY DEF Init, WholeInv, Whole, Original, Running
  <1>4. OnceInv
    <2>1. ASSUME NEW s \in Source PROVE OnceIn(Original, s) /\ OnceIn(Absent, s)
      BY DEF OnceIn, Original, Absent, NoGen
    <2> QED
      BY <2>1 DEF Init, OnceInv
  <1>5. OutputInv
    BY DEF Init, OutputInv, OutputsSafe, Running
  <1>6. FollowInv
    BY DEF Init, FollowInv, Original, Running
  <1> QED
    BY <1>1, <1>2, <1>3, <1>4, <1>5, <1>6 DEF IInv

-----------------------------------------------------------------------------
LEMMA InputSame == ASSUME Next PROVE UNCHANGED input
  BY DEF Next, Program, Transform, NextList, Finish, Crash, Restart, OpenCopy,
         WriteCopy, Rename, SameOutput, OpenOutput, WriteOutput,
         CloseNullAborts

LEMMA TypeStep ==
    ASSUME TypeOK, Next
    PROVE  TypeOK'
  <1> USE DEF TypeOK
  <1>1. CASE Transform
    <2>1. code' \in [Source -> Content]
      BY <1>1, RewrittenContent DEF Transform
    <2>2. lists' \in (SUBSET Source) \X (SUBSET Source)
      BY <1>1 DEF Transform, ToGenerate, Used
    <2> QED
      BY <1>1, <2>1, <2>2 DEF Transform, input, files
  <1>2. CASE NextList
    BY <1>2 DEF NextList, input, files
  <1>3. CASE Finish
    BY <1>3 DEF Finish, input, files
  <1>4. CASE Crash
    BY <1>4, OriginalContent DEF Crash, input, files
  <1>5. CASE Restart
    BY <1>5 DEF Restart, input, files
  <1>6. ASSUME NEW s \in Source, OpenCopy(s) PROVE TypeOK'
    BY <1>6, OriginalContent DEF OpenCopy, Take, input, files
  <1>7. ASSUME NEW s \in Source, WriteCopy(s) PROVE TypeOK'
    BY <1>7 DEF WriteCopy, input, files
  <1>8. ASSUME NEW s \in Source, Rename(s) PROVE TypeOK'
    BY <1>8, OriginalContent DEF Rename, input, files
  <1>9. ASSUME NEW s \in Source, SameOutput(s) PROVE TypeOK'
    BY <1>9 DEF SameOutput, Take, input, files
  <1>10. ASSUME NEW s \in Source, OpenOutput(s) PROVE TypeOK'
    BY <1>10, OriginalContent DEF OpenOutput, Take, input, files
  <1>11. ASSUME NEW s \in Source, WriteOutput(s) PROVE TypeOK'
    BY <1>11 DEF WriteOutput, input, files
  <1>12. ASSUME NEW s \in Source, CloseNullAborts(s) PROVE TypeOK'
    BY <1>12 DEF CloseNullAborts, Take, input, files
  <1> QED
    BY <1>1, <1>2, <1>3, <1>4, <1>5, <1>6, <1>7, <1>8, <1>9, <1>10, <1>11,
       <1>12 DEF Next, Program

LEMMA ControlStep ==
    ASSUME TypeOK, ControlInv, Next
    PROVE  ControlInv'
  <1> USE DEF TypeOK, ControlInv
  <1>1. CASE Transform
    BY <1>1 DEF Transform
  <1>2. CASE NextList
    BY <1>2 DEF NextList
  <1>3. CASE Finish
    BY <1>3 DEF Finish
  <1>4. CASE Crash
    BY <1>4 DEF Crash
  <1>5. CASE Restart
    BY <1>5 DEF Restart
  <1>6. ASSUME NEW s \in Source, OpenCopy(s) PROVE ControlInv'
    BY <1>6 DEF OpenCopy, Take
  <1>7. ASSUME NEW s \in Source, WriteCopy(s) PROVE ControlInv'
    BY <1>7 DEF WriteCopy
  <1>8. ASSUME NEW s \in Source, Rename(s) PROVE ControlInv'
    BY <1>8 DEF Rename
  <1>9. ASSUME NEW s \in Source, SameOutput(s) PROVE ControlInv'
    BY <1>9 DEF SameOutput, Take
  <1>10. ASSUME NEW s \in Source, OpenOutput(s) PROVE ControlInv'
    BY <1>10 DEF OpenOutput, Take
  <1>11. ASSUME NEW s \in Source, WriteOutput(s) PROVE ControlInv'
    BY <1>11 DEF WriteOutput
  <1>12. ASSUME NEW s \in Source, CloseNullAborts(s) PROVE ControlInv'
    BY <1>12 DEF CloseNullAborts, Take
  <1> QED
    BY <1>1, <1>2, <1>3, <1>4, <1>5, <1>6, <1>7, <1>8, <1>9, <1>10, <1>11,
       <1>12 DEF Next, Program

LEMMA WholeStep ==
    ASSUME TypeOK, ControlInv, WholeInv, Next
    PROVE  WholeInv'
  <1> USE DEF TypeOK, ControlInv, WholeInv, Whole, Running, input, files
  <1>1. CASE Transform
    BY <1>1 DEF Transform, Rewritten
  <1>2. CASE NextList
    BY <1>2 DEF NextList
  <1>3. CASE Finish
    BY <1>3 DEF Finish
  <1>4. CASE Crash
    BY <1>4 DEF Crash
  <1>5. CASE Restart
    BY <1>5 DEF Restart
  <1>6. ASSUME NEW s \in Source, OpenCopy(s) PROVE WholeInv'
    BY <1>6 DEF OpenCopy, Take
  <1>7. ASSUME NEW s \in Source, WriteCopy(s) PROVE WholeInv'
    BY <1>7 DEF WriteCopy
  <1>8. ASSUME NEW s \in Source, Rename(s) PROVE WholeInv'
    BY <1>8 DEF Rename
  <1>9. ASSUME NEW s \in Source, SameOutput(s) PROVE WholeInv'
    BY <1>9 DEF SameOutput, Take
  <1>10. ASSUME NEW s \in Source, OpenOutput(s) PROVE WholeInv'
    BY <1>10 DEF OpenOutput, Take
  <1>11. ASSUME NEW s \in Source, WriteOutput(s) PROVE WholeInv'
    BY <1>11 DEF WriteOutput
  <1>12. ASSUME NEW s \in Source, CloseNullAborts(s) PROVE WholeInv'
    BY <1>12 DEF CloseNullAborts, Take
  <1> QED
    BY <1>1, <1>2, <1>3, <1>4, <1>5, <1>6, <1>7, <1>8, <1>9, <1>10, <1>11,
       <1>12 DEF Next, Program

-----------------------------------------------------------------------------
LEMMA RewrittenOnce ==
    ASSUME TypeOK, OnceInv, NEW s \in Source
    PROVE  OnceIn(Rewritten(s), s)
  <1>1. OnceIn(Broken, s)
    BY DEF OnceIn, Broken, NoGen
  <1>2. CASE Whole(s)
    <2> SUFFICES ASSUME NEW f \in Fun
                 PROVE  /\ Rewritten(s).gen[f] <= 1
                        /\ Rewritten(s).gen[f] > 0 => s = home[f]
      BY DEF OnceIn
    <2>1. disk[s].gen[f] \in Nat
      BY DEF TypeOK, Content
    <2>2. disk[s].gen[f] <= 1 /\ (disk[s].gen[f] > 0 => s = home[f])
      BY DEF OnceInv, OnceIn
    <2>3. f \in ToGenerate => disk[s].gen[f] = 0
      BY <1>2, <2>1 DEF ToGenerate, Existing
    <2>4. Rewritten(s).gen[f] =
            disk[s].gen[f] + IF f \in ToGenerate /\ home[f] = s THEN 1 ELSE 0
      BY <1>2 DEF Rewritten
    <2> QED
      BY <2>1, <2>2, <2>3, <2>4
  <1> QED
    BY <1>1, <1>2 DEF Rewritten

LEMMA OnceStep ==
    ASSUME TypeOK, OnceInv, Next
    PROVE  OnceInv'
  <1> DEFINE Once(v, s, h) ==
               \A f \in Fun : v.gen[f] <= 1 /\ (v.gen[f] > 0 => s = h[f])
  <1>1. \A s \in Source : /\ Once(disk[s], s, home) /\ Once(copy[s], s, home)
                          /\ Once(code[s], s, home)
    BY DEF OnceInv, OnceIn
  <1>2. home' = home
    BY DEF Next, Program, Transform, NextList, Finish, Crash, Restart, OpenCopy,
           WriteCopy, Rename, SameOutput, OpenOutput, WriteOutput,
           CloseNullAborts, input
  <1>3. \A s \in Source : Once(Absent, s, home) /\ Once(Broken, s, home)
    BY DEF Absent, Broken, NoGen
  <1>4. \A s \in Source : Once(Rewritten(s), s, home)
    BY RewrittenOnce DEF OnceIn
  <1>5. \A s \in Source : disk'[s] \in {disk[s], copy[s]}
    BY DEF Next, Program, Transform, NextList, Finish, Crash, Restart, OpenCopy,
           WriteCopy, Rename, SameOutput, OpenOutput, WriteOutput,
           CloseNullAborts, files, TypeOK
  <1>6. \A s \in Source : copy'[s] \in {copy[s], code[s], Absent, Broken}
    BY DEF Next, Program, Transform, NextList, Finish, Crash, Restart, OpenCopy,
           WriteCopy, Rename, SameOutput, OpenOutput, WriteOutput,
           CloseNullAborts, files, TypeOK
  <1>7. \A s \in Source : code'[s] \in {code[s], Rewritten(s), Absent}
    BY DEF Next, Program, Transform, NextList, Finish, Crash, Restart, OpenCopy,
           WriteCopy, Rename, SameOutput, OpenOutput, WriteOutput,
           CloseNullAborts
  <1> HIDE DEF Once
  <1>8. \A s \in Source : /\ Once(disk'[s], s, home) /\ Once(copy'[s], s, home)
                          /\ Once(code'[s], s, home)
    BY <1>1, <1>3, <1>4, <1>5, <1>6, <1>7
  <1> QED
    BY <1>2, <1>8 DEF OnceInv, OnceIn, Once

-----------------------------------------------------------------------------
LEMMA OutputStep ==
    ASSUME TypeOK, ControlInv, OutputInv, Next
    PROVE  OutputInv'
  <1> SUFFICES ASSUME outputDir, outputDir' PROVE OutputInv'
    BY InputSame DEF OutputInv, input
  <1>1. UNCHANGED <<calls, home, disk>>
    BY DEF Next, Program, Transform, NextList, Finish, Crash, Restart, OpenCopy,
           WriteCopy, Rename, SameOutput, OpenOutput, WriteOutput,
           CloseNullAborts, input, files, OutputInv
  <1>2. \A s \in Source : Rewritten(s)' = Rewritten(s)
    BY <1>1, RewrittenSame
  <1> USE DEF TypeOK, ControlInv, OutputInv, OutputsSafe, Running, input, files
  <1>3. CASE Transform
    BY <1>1, <1>2, <1>3 DEF Transform
  <1>4. CASE NextList
    BY <1>1, <1>2, <1>4 DEF NextList
  <1>5. CASE Finish
    BY <1>1, <1>2, <1>5 DEF Finish
  <1>6. CASE Crash
    BY <1>1, <1>2, <1>6 DEF Crash
  <1>7. CASE Restart
    BY <1>1, <1>2, <1>7 DEF Restart
  <1>8. ASSUME NEW s \in Source, OpenCopy(s) \/ WriteCopy(s) PROVE FALSE
    BY <1>8 DEF OpenCopy, WriteCopy
  <1>9. ASSUME NEW s \in Source, Rename(s) PROVE FALSE
    BY <1>9 DEF Rename
  <1>10. ASSUME NEW s \in Source, SameOutput(s) PROVE OutputInv'
    BY <1>1, <1>2, <1>10 DEF SameOutput, Take
  <1>11. ASSUME NEW s \in Source, OpenOutput(s) PROVE OutputInv'
    BY <1>1, <1>2, <1>11 DEF OpenOutput, Take
  <1>12. ASSUME NEW s \in Source, WriteOutput(s) PROVE OutputInv'
    BY <1>1, <1>2, <1>12 DEF WriteOutput
  <1>13. ASSUME NEW s \in Source, CloseNullAborts(s) PROVE OutputInv'
    BY <1>1, <1>2, <1>13 DEF CloseNullAborts, Take
  <1> QED
    BY <1>3, <1>4, <1>5, <1>6, <1>7, <1>8, <1>9, <1>10, <1>11, <1>12, <1>13
       DEF Next, Program

-----------------------------------------------------------------------------
(* In place, every source whose calls are to be redirected is up to date   *)
(* or is still to be written.                                              *)
LEMMA InPlaceStep ==
    ASSUME TypeOK, ControlInv, WholeInv, InPlaceInv, Next
    PROVE  InPlaceInv'
  <1> SUFFICES ASSUME ~outputDir, ~writesFail, ~outputDir', ~writesFail'
               PROVE  InPlaceInv'
    BY InputSame DEF InPlaceInv, input
  <1> USE DEF TypeOK, ControlInv, WholeInv, InPlaceInv, Whole, Pending,
              Running, input, files
  <1>1. CASE Transform
    <2>1. \A s \in Source : code'[s].redirected = (disk[s].redirected \/ calls[s] # {})
      BY <1>1 DEF Transform, Rewritten
    <2>2. \A s \in Source : calls[s] # {} => disk[s].redirected \/ s \in lists'[1]
      BY <1>1 DEF Transform
    <2> QED
      BY <1>1, <2>1, <2>2 DEF Transform
  <1>2. CASE NextList
    BY <1>2 DEF NextList
  <1>3. CASE Finish
    BY <1>3 DEF Finish
  <1>4. CASE Crash
    BY <1>4 DEF Crash
  <1>5. CASE Restart
    BY <1>5 DEF Restart
  <1>6. ASSUME NEW s \in Source, OpenCopy(s) PROVE InPlaceInv'
    BY <1>6 DEF OpenCopy, Take
  <1>7. ASSUME NEW s \in Source, WriteCopy(s) PROVE InPlaceInv'
    BY <1>7 DEF WriteCopy
  <1>8. ASSUME NEW s \in Source, Rename(s) PROVE InPlaceInv'
    <2>1. s \in Source /\ cur = {s} /\ cur' = {} /\ phase' = "files"
      BY <1>8 DEF Rename
    <2>2. disk' = [disk EXCEPT ![s] = code[s]]
      BY <1>8, OriginalContent DEF Rename, Absent
    <2>3. UNCHANGED <<calls, home, code, lists, stopped>> /\ phase = "rename"
      BY <1>8 DEF Rename
    <2>4. disk'[s] = code[s] /\ \A t \in Source \ {s} : disk'[t] = disk[t]
      BY <2>2
    <2>5. \A t \in Source \ {s} : t \in Pending => t \in Pending'
      BY <2>1, <2>3
    <2> QED
      BY <2>1, <2>3, <2>4, <2>5
  <1>9. ASSUME NEW s \in Source, SameOutput(s) \/ OpenOutput(s) \/ WriteOutput(s)
                               \/ CloseNullAborts(s)
        PROVE FALSE
    BY <1>9 DEF SameOutput, OpenOutput, WriteOutput, CloseNullAborts
  <1> QED
    BY <1>1, <1>2, <1>3, <1>4, <1>5, <1>6, <1>7, <1>8, <1>9
       DEF Next, Program

(* The version that is written has every definition that the one on disk   *)
(* has.                                                                    *)
LEMMA GrowStep ==
    ASSUME TypeOK, ControlInv, WholeInv, GrowInv, Next
    PROVE  GrowInv'
  <1> SUFFICES ASSUME ~outputDir, ~writesFail, ~outputDir', ~writesFail'
               PROVE  GrowInv'
    BY InputSame DEF GrowInv, input
  <1> USE DEF TypeOK, ControlInv, WholeInv, GrowInv, Whole, Running, input, files
  <1>1. CASE Transform
    <2> SUFFICES ASSUME NEW s \in Source, NEW f \in Fun, disk[s].gen[f] > 0
                 PROVE  code'[s].gen[f] > 0
      BY <1>1 DEF Transform
    <2>1. code'[s].gen[f] =
            disk[s].gen[f] + IF f \in ToGenerate /\ home[f] = s THEN 1 ELSE 0
      BY <1>1 DEF Transform, Rewritten
    <2>2. disk[s].gen[f] \in Nat
      BY DEF Content
    <2> QED
      BY <2>1, <2>2
  <1>2. CASE NextList
    BY <1>2 DEF NextList
  <1>3. CASE Finish
    BY <1>3 DEF Finish
  <1>4. CASE Crash
    BY <1>4 DEF Crash
  <1>5. CASE Restart
    BY <1>5 DEF Restart
  <1>6. ASSUME NEW s \in Source, OpenCopy(s) PROVE GrowInv'
    BY <1>6 DEF OpenCopy, Take
  <1>7. ASSUME NEW s \in Source, WriteCopy(s) PROVE GrowInv'
    BY <1>7 DEF WriteCopy
  <1>8. ASSUME NEW s \in Source, Rename(s) PROVE GrowInv'
    BY <1>8 DEF Rename
  <1>9. ASSUME NEW s \in Source, SameOutput(s) \/ OpenOutput(s) \/ WriteOutput(s)
                               \/ CloseNullAborts(s)
        PROVE FALSE
    BY <1>9 DEF SameOutput, OpenOutput, WriteOutput, CloseNullAborts
  <1> QED
    BY <1>1, <1>2, <1>3, <1>4, <1>5, <1>6, <1>7, <1>8, <1>9
       DEF Next, Program

LEMMA FollowStep ==
    ASSUME TypeOK, ControlInv, WholeInv, OnceInv, GrowInv, FollowInv, Next
    PROVE  FollowInv'
  <1> SUFFICES ASSUME ~outputDir, ~writesFail, ~outputDir', ~writesFail', ~stopped'
               PROVE  FollowInv'
    BY InputSame DEF FollowInv, input
  <1> USE DEF TypeOK, ControlInv, WholeInv, GrowInv, FollowInv, Whole, Pending,
              DefinedBySoon, Running, input, files
  <1>1. CASE Transform
    <2> SUFFICES ASSUME NEW s \in Source, NEW f \in calls[s]
                 PROVE  \/ disk[home[f]].gen[f] > 0
                        \/ /\ home[f] \in lists'[2]
                           /\ code'[home[f]].gen[f] > 0
      BY <1>1 DEF Transform
    <2>1. f \in Fun /\ home[f] \in Source
      OBVIOUS
    <2>2. CASE disk[s].redirected
      BY <1>1, <2>1, <2>2 DEF Transform
    <2>3. CASE ~disk[s].redirected /\ f \in Existing
      BY <2>1, <2>3 DEF Existing, OnceInv, OnceIn
    <2>4. CASE ~disk[s].redirected /\ f \notin Existing
      <3>1. f \in ToGenerate
        BY <2>4 DEF ToGenerate, Used
      <3>2. home[f] \in lists'[2]
        BY <1>1, <3>1 DEF Transform
      <3>3. code'[home[f]].gen[f] = disk[home[f]].gen[f] + 1
        BY <1>1, <2>1, <3>1 DEF Transform, Rewritten
      <3>4. disk[home[f]].gen[f] \in Nat
        BY <2>1 DEF Content
      <3> QED
        BY <3>2, <3>3, <3>4
    <2> QED
      BY <2>2, <2>3, <2>4
  <1>2. CASE NextList
    BY <1>2 DEF NextList
  <1>3. CASE Finish
    BY <1>3 DEF Finish
  <1>4. CASE Crash
    BY <1>4 DEF Crash
  <1>5. CASE Restart
    BY <1>5 DEF Restart
  <1>6. ASSUME NEW s \in Source, OpenCopy(s) PROVE FollowInv'
    BY <1>6 DEF OpenCopy, Take
  <1>7. ASSUME NEW s \in Source, WriteCopy(s) PROVE FollowInv'
    BY <1>7 DEF WriteCopy
  <1>8. ASSUME NEW s \in Source, Rename(s) PROVE FollowInv'
    <2>1. s \in Source /\ cur = {s} /\ cur' = {} /\ phase' = "files"
      BY <1>8 DEF Rename
    <2>2. disk' = [disk EXCEPT ![s] = code[s]]
      BY <1>8, OriginalContent DEF Rename, Absent
    <2>3. UNCHANGED <<calls, home, code, lists, stopped>> /\ phase = "rename"
      BY <1>8 DEF Rename
    <2>4. disk'[s] = code[s] /\ \A t \in Source \ {s} : disk'[t] = disk[t]
      BY <2>2
    <2>5. \A t \in Source \ {s} : t \in Pending => t \in Pending'
      BY <2>1, <2>3
    <2> SUFFICES ASSUME NEW t \in Source, NEW f \in calls[t],
                        disk'[t].redirected \/ code[t].redirected
                 PROVE  \/ disk'[home[f]].gen[f] > 0
                        \/ home[f] \in Pending' /\ code[home[f]].gen[f] > 0
      BY <2>1, <2>3
    <2>6. f \in Fun /\ home[f] \in Source
      OBVIOUS
    <2>7. disk[t].redirected \/ code[t].redirected
      BY <2>4
    <2>8. DefinedBySoon(f)
      BY <2>3, <2>7
    <2>9. CASE home[f] = s
      <3>1. code[s].gen[f] > 0
        BY <2>3, <2>6, <2>8, <2>9
      <3> QED
        BY <2>4, <2>9, <3>1
    <2>10. CASE home[f] # s
      BY <2>4, <2>5, <2>6, <2>8, <2>10
    <2> QED
      BY <2>9, <2>10
  <1>9. ASSUME NEW s \in Source, SameOutput(s) \/ OpenOutput(s) \/ WriteOutput(s)
                               \/ CloseNullAborts(s)
        PROVE FALSE
    BY <1>9 DEF SameOutput, OpenOutput, WriteOutput, CloseNullAborts
  <1> QED
    BY <1>1, <1>2, <1>3, <1>4, <1>5, <1>6, <1>7, <1>8, <1>9
       DEF Next, Program

-----------------------------------------------------------------------------
LEMMA StutterStep == ASSUME IInv, UNCHANGED vars PROVE IInv'
  <1> SUFFICES ASSUME IInv, UNCHANGED vars PROVE IInv'
    OBVIOUS
  <1>1. UNCHANGED <<calls, home, outputDir, writesFail, closeNull, disk,
                     copy, out, code, lists, cur, phase, runs, stopped>>
    BY DEF vars, input, files
  <1>2. \A s \in Source : Rewritten(s)' = Rewritten(s)
    BY <1>1, RewrittenSame
  <1>3. TypeOK' /\ ControlInv' /\ WholeInv' /\ OnceInv'
    BY <1>1 DEF IInv, TypeOK, ControlInv, WholeInv, Whole, Running, OnceInv, OnceIn
  <1>4. OutputInv'
    BY <1>1, <1>2 DEF IInv, OutputInv, OutputsSafe, Running
  <1>5. InPlaceInv' /\ GrowInv' /\ FollowInv'
    BY <1>1 DEF IInv, InPlaceInv, GrowInv, FollowInv, DefinedBySoon, Pending,
                Running
  <1> QED
    BY <1>3, <1>4, <1>5 DEF IInv

(* IInv is an invariant: RewriteSourceFiles and what Main does around it   *)
(* never lose track of a file, whenever they are stopped and rerun.        *)
THEOREM InvCorrect == Spec => []IInv
  <1>1. Init => IInv
    BY InitInv
  <1>2. IInv /\ [Next]_vars => IInv'
    <2>1. ASSUME IInv, Next PROVE IInv'
      BY <2>1, TypeStep, ControlStep, WholeStep, OnceStep, OutputStep,
         InPlaceStep, GrowStep, FollowStep DEF IInv
    <2> QED
      BY <2>1, StutterStep
  <1> QED
    BY <1>1, <1>2, PTL DEF Spec

(* As long as writes succeed no source is ever seen half-written.          *)
THEOREM WholeCorrect == Spec => []SourcesWhole
  <1>1. IInv => SourcesWhole
    BY DEF IInv, WholeInv, SourcesWhole
  <1> QED
    BY <1>1, InvCorrect, PTL

(* No function gets a second unsafe version, nor one outside its file.     *)
THEOREM OnceCorrect == Spec => []GeneratedOnce
  <1>1. IInv => GeneratedOnce
    BY DEF IInv, OnceInv, OnceIn, GeneratedOnce
  <1> QED
    BY <1>1, InvCorrect, PTL

(* A finished run has redirected the calls, unless a write failed. *)
THEOREM RedirectedCorrect == Spec => []CallsRedirected
  <1>1. IInv => CallsRedirected
    BY DEF IInv, WholeInv, InPlaceInv, ControlInv, Pending, Running, CallsRedirected
  <1> QED
    BY <1>1, InvCorrect, PTL

(* Unless a run was stopped, what a source calls is defined or pending.    *)
THEOREM FollowCorrect == Spec => []DefinitionsFollow
  <1>1. IInv => DefinitionsFollow
    <2> SUFFICES ASSUME IInv, ~writesFail, ~stopped, NEW s \in Source,
                        disk[s].redirected, NEW f \in calls[s]
                 PROVE  Defined(f) \/ home[f] \in lists[1] \cup lists[2] \cup cur
      BY DEF DefinitionsFollow
    <2>1. f \in Fun /\ home[f] \in Source
      BY DEF IInv, TypeOK
    <2>2. ~outputDir
      BY DEF IInv, OutputInv, OutputsSafe, Original
    <2>3. DefinedBySoon(f)
      BY <2>2 DEF IInv, FollowInv
    <2>4. Whole(home[f])
      BY <2>1 DEF IInv, WholeInv
    <2> QED
      BY <2>3, <2>4 DEF DefinedBySoon, Pending, Defined
  <1> QED
    BY <1>1, InvCorrect, PTL

(* Whatever fails, an output file is absent, cut short, or right.          *)
THEOREM OutputsSafeCorrect == Spec => []OutputsSafe
  <1>1. IInv => OutputsSafe
    BY DEF IInv, OutputInv, OutputsSafe
  <1> QED
    BY <1>1, InvCorrect, PTL

(* A finished run has brought the output directory up to date.             *)
THEOREM OutputsCompleteCorrect == Spec => []OutputsComplete
  <1>1. IInv => OutputsComplete
    BY DEF IInv, OutputInv, ControlInv, OutputsComplete
  <1> QED
    BY <1>1, InvCorrect, PTL
=============================================================================
