----------------------------- MODULE WriteBack -----------------------------
(***************************************************************************)
(* Step 9 of Main: RewriteSourceFiles (src/src/rewrite.cc), the files it   *)
(* writes, and what happens to them when a write fails, when the program   *)
(* is stopped between two steps, and when it is run again over what the    *)
(* last run has left.                                                      *)
(*                                                                         *)
(* A source is described by the guarded functions its unprotected sections *)
(* call, whether those calls are redirected, and the unsafe versions it    *)
(* defines.  Steps 1 to 8 are one action; CallAnalysis has their detail.   *)
(* In place, a file is written beside the source and renamed over it; with *)
(* an output directory, it is written there directly.                      *)
(***************************************************************************)
EXTENDS Integers

CONSTANTS Source,    \* the .c, .cc and .h files given
          Fun,       \* guarded inline functions
          MaxRuns    \* bound: how often the program is started

VARIABLES calls,    \* guarded functions called in the sections of a source
          home,     \* the source that defines a function
          outputDir,   \* opts->OutputDir is given
          writesFail,  \* environment: fopen, fwrite and rename may fail
          closeNull,   \* environment: what fclose(NULL), undefined, does
          disk,     \* the sources on disk
          copy,     \* the .unsafe files beside them
          out,      \* the files in the output directory
          code,     \* source->rewritten_code
          lists,    \* sources still to be written: of this list, of the next
          cur,      \* the source being written, as a set of at most one
          phase,
          runs,
          stopped   \* history: a run was stopped half-way

input == <<calls, home, outputDir, writesFail, closeNull>>
files == <<disk, copy, out>>
vars == <<input, files, code, lists, cur, phase, runs, stopped>>

(* A file is whole, or the beginning of a file ("broken"), or absent.  gen *)
(* says how often it defines the unsafe version of a function.             *)
Content == [state : {"whole", "broken", "absent"}, redirected : BOOLEAN,
            gen : [Fun -> Nat]]

NoGen == [f \in Fun |-> 0]
Original == [state |-> "whole", redirected |-> FALSE, gen |-> NoGen]
Broken == [state |-> "broken", redirected |-> FALSE, gen |-> NoGen]
Absent == [state |-> "absent", redirected |-> FALSE, gen |-> NoGen]

Init == /\ calls \in [Source -> SUBSET Fun]
        /\ home \in [Fun -> Source]
        /\ outputDir \in BOOLEAN /\ writesFail \in BOOLEAN
        /\ closeNull \in {"return", "abort"}
        /\ disk = [s \in Source |-> Original]
        /\ copy = [s \in Source |-> Absent]
        /\ out = [s \in Source |-> Absent]
        /\ code = [s \in Source |-> Absent]
        /\ lists = <<{}, {}>>
        /\ cur = {}
        /\ phase = "start"
        /\ runs = 1
        /\ stopped = FALSE

-----------------------------------------------------------------------------
Whole(s) == disk[s].state = "whole"

(* The names that the sections still call unredirected: used_funcnames. *)
Used == UNION {calls[s] : s \in {r \in Source : Whole(r) /\ ~disk[r].redirected}}

(* unsafe_names: functions that have an unsafe version in some source. *)
Existing == {f \in Fun : \E s \in Source : Whole(s) /\ disk[s].gen[f] > 0}

(* Mutant: dont_rewrite is left empty. *)
GenerateAll == Used

ToGenerate == Used \ Existing

Rewritten(s) ==
    IF ~Whole(s) THEN Broken
    ELSE [state |-> "whole",
          redirected |-> disk[s].redirected \/ calls[s] # {},
          gen |-> [f \in Fun |-> disk[s].gen[f] +
                     IF f \in ToGenerate /\ home[f] = s THEN 1 ELSE 0]]

(* Mutant: only the sources with new functions are written. *)
TransformHeaders ==
    /\ phase = "start"
    /\ code' = [s \in Source |-> Rewritten(s)]
    /\ lists' = <<{home[f] : f \in ToGenerate}, {}>>
    /\ phase' = "files"
    /\ UNCHANGED <<input, files, cur, runs, stopped>>

(* Steps 1 to 8, and the choice of the lists in step 9: the sources with   *)
(* redirected calls, then those with new functions; or all of them.        *)
Transform ==
    /\ phase = "start"
    /\ code' = [s \in Source |-> Rewritten(s)]
    /\ lists' = IF outputDir THEN <<Source, {}>>
                ELSE <<{s \in Source : Whole(s) /\ ~disk[s].redirected
                                                /\ calls[s] # {}},
                       {home[f] : f \in ToGenerate}>>
    /\ phase' = "files"
    /\ UNCHANGED <<input, files, cur, runs, stopped>>

(* The loop over the sources of a list, in an order left open. *)
Take(s) == /\ phase = "files" /\ s \in lists[1]
           /\ lists' = <<lists[1] \ {s}, lists[2]>>

NextList == /\ phase = "files" /\ lists[1] = {} /\ lists[2] # {}
            /\ lists' = <<lists[2], {}>>
            /\ UNCHANGED <<input, files, code, cur, phase, runs, stopped>>

(* Mutant: RewriteSourceFiles is called for the first list only. *)
FinishFirst == /\ phase = "files" /\ lists[1] = {}
               /\ phase' = "done"
               /\ lists' = <<{}, {}>>
               /\ UNCHANGED <<input, files, code, cur, runs, stopped>>

Finish == /\ phase = "files" /\ lists[1] = {} /\ lists[2] = {}
          /\ phase' = "done"
          /\ UNCHANGED <<input, files, code, lists, cur, runs, stopped>>

-----------------------------------------------------------------------------
(* Mutant: the source itself is opened for writing. *)
OpenSource(s) == /\ ~outputDir /\ Take(s)
                 /\ cur' = {s}
                 /\ disk' = [disk EXCEPT ![s] = Broken]
                 /\ phase' = "write"
                 /\ UNCHANGED <<input, copy, out, code, runs, stopped>>

(* In place: WriteFile(filename.unsafe) and rename.  fopen empties the     *)
(* file or fails; fwrite completes it or does not; the results of both and *)
(* of rename are not looked at.                                            *)
OpenCopy(s) == /\ ~outputDir /\ Take(s)
               /\ cur' = {s}
               /\ \/ copy' = [copy EXCEPT ![s] = Broken] /\ phase' = "write"
                  \/ writesFail /\ UNCHANGED copy /\ phase' = "rename"
               /\ UNCHANGED <<input, disk, out, code, runs, stopped>>

(* Mutant: a short fwrite is not continued. *)
WriteShort(s) ==
    /\ ~outputDir /\ phase = "write" /\ s \in cur
    /\ phase' = "rename"
    /\ UNCHANGED <<input, disk, copy, out, code, lists, cur, runs, stopped>>

WriteCopy(s) ==
    /\ ~outputDir /\ phase = "write" /\ s \in cur
    /\ \/ copy' = [copy EXCEPT ![s] = code[s]]
       \/ writesFail /\ UNCHANGED copy
    /\ phase' = "rename"
    /\ UNCHANGED <<input, disk, out, code, lists, cur, runs, stopped>>

Rename(s) ==
    /\ phase = "rename" /\ s \in cur
    /\ \/ /\ copy[s] # Absent
          /\ disk' = [disk EXCEPT ![s] = copy[s]]
          /\ copy' = [copy EXCEPT ![s] = Absent]
       \/ /\ copy[s] = Absent \/ writesFail
          /\ UNCHANGED <<disk, copy>>
    /\ cur' = {}
    /\ phase' = "files"
    /\ UNCHANGED <<input, out, code, lists, runs, stopped>>

(* Mutant: a file that exists is taken to be up to date. *)
AnyOutput(s) == /\ outputDir /\ Take(s) /\ out[s] # Absent
                /\ UNCHANGED <<input, files, code, cur, phase, runs, stopped>>

(* Output directory: a file that holds the code already is not written.    *)
(* ReadFile closes the null stream of a file that does not exist.          *)
SameOutput(s) == /\ outputDir /\ Take(s) /\ out[s] = code[s]
                 /\ UNCHANGED <<input, files, code, cur, phase, runs, stopped>>

OpenOutput(s) == /\ outputDir /\ Take(s) /\ out[s] # code[s]
                 /\ out[s] = Absent => closeNull = "return"
                 /\ \/ /\ out' = [out EXCEPT ![s] = Broken]
                       /\ cur' = {s} /\ phase' = "write"
                    \/ writesFail /\ UNCHANGED <<out, cur, phase>>
                 /\ UNCHANGED <<input, disk, copy, code, runs, stopped>>

CloseNullAborts(s) == /\ outputDir /\ Take(s) /\ out[s] = Absent
                      /\ closeNull = "abort"
                      /\ phase' = "aborted"
                      /\ UNCHANGED <<input, files, code, cur, runs, stopped>>

(* Mutant: the new code is written under the name of the source. *)
WriteInput(s) ==
    /\ outputDir /\ phase = "write" /\ s \in cur
    /\ disk' = [disk EXCEPT ![s] = code[s]]
    /\ cur' = {}
    /\ phase' = "files"
    /\ UNCHANGED <<input, out, copy, code, lists, runs, stopped>>

WriteOutput(s) ==
    /\ outputDir /\ phase = "write" /\ s \in cur
    /\ \/ out' = [out EXCEPT ![s] = code[s]]
       \/ writesFail /\ UNCHANGED out
    /\ cur' = {}
    /\ phase' = "files"
    /\ UNCHANGED <<input, disk, copy, code, lists, runs, stopped>>

-----------------------------------------------------------------------------
(* The process is killed: its memory is lost, its files stay as they are.  *)
(* It is started again; a run that is done may be repeated as well.        *)
Crash == /\ phase \in {"start", "files", "write", "rename"}
         /\ runs < MaxRuns
         /\ phase' = "stopped" /\ stopped' = TRUE
         /\ code' = [s \in Source |-> Absent]
         /\ lists' = <<{}, {}>> /\ cur' = {}
         /\ UNCHANGED <<input, files, runs>>

Restart == /\ phase \in {"stopped", "done"} /\ runs < MaxRuns
           /\ phase' = "start" /\ runs' = runs + 1
           /\ UNCHANGED <<input, files, code, lists, cur, stopped>>

Program == \/ Transform \/ NextList \/ Finish
           \/ \E s \in Source :
                 \/ OpenCopy(s) \/ WriteCopy(s) \/ Rename(s)
                 \/ SameOutput(s) \/ OpenOutput(s) \/ WriteOutput(s)
                 \/ CloseNullAborts(s)

Next == Program \/ Crash \/ Restart

Spec == Init /\ [][Next]_vars

(* A started program keeps running; a stopped one is started again. *)
FairSpec == Spec /\ WF_vars(Program) /\ WF_vars(Restart)

-----------------------------------------------------------------------------
TypeOK == /\ calls \in [Source -> SUBSET Fun]
          /\ home \in [Fun -> Source]
          /\ outputDir \in BOOLEAN /\ writesFail \in BOOLEAN
          /\ closeNull \in {"return", "abort"}
          /\ disk \in [Source -> Content] /\ copy \in [Source -> Content]
          /\ out \in [Source -> Content] /\ code \in [Source -> Content]
          /\ lists \in (SUBSET Source) \X (SUBSET Source)
          /\ cur \in SUBSET Source
          /\ phase \in {"start", "files", "write", "rename", "done",
                        "stopped", "aborted"}
          /\ runs \in Nat
          /\ stopped \in BOOLEAN

(* A source is never seen half-written, whenever the program is stopped:   *)
(* it is the old version or the new one.                                   *)
SourcesWhole == ~writesFail => \A s \in Source : Whole(s)

(* However often the program is stopped and run again, a function gets at  *)
(* most one unsafe version.                                                *)
GeneratedOnce ==
    \A f \in Fun : \A s \in Source : /\ disk[s].gen[f] <= 1
                                     /\ disk[s].gen[f] > 0 => s = home[f]

(* README.md:18-19: when a run is done, the calls in the sections are      *)
(* redirected.                                                             *)
CallsRedirected ==
    phase = "done" /\ ~outputDir /\ ~writesFail =>
        \A s \in Source : Whole(s) /\ (calls[s] # {} => disk[s].redirected)

(* README.md:20-21: the necessary unsafe functions are generated.          *)
Defined(f) == Whole(home[f]) /\ disk[home[f]].gen[f] > 0

CallsDefined ==
    phase = "done" /\ ~outputDir /\ ~writesFail =>
        \A s \in Source : Whole(s) /\ disk[s].redirected =>
            \A f \in calls[s] : Defined(f)

(* A source that redirects to a function that is not there yet is being    *)
(* dealt with: the run that goes on will write the definition.  It is only *)
(* when a run is stopped that one may be left dangling.                    *)
DefinitionsFollow ==
    ~writesFail /\ ~stopped => \A s \in Source : disk[s].redirected =>
        \A f \in calls[s] : \/ Defined(f)
                            \/ home[f] \in lists[1] \cup lists[2] \cup cur

(* With an output directory the sources are only read, and an output file  *)
(* is never something else than what belongs there: whatever fails, it is  *)
(* absent, cut short, or right, so that the next run can tell.             *)
OutputsSafe ==
    outputDir => \A s \in Source : /\ disk[s] = Original
                                  /\ out[s] \in {Absent, Broken, Rewritten(s)}

(* A run that is done has brought every output file up to date, whatever   *)
(* stopped runs have left in the directory.                                *)
OutputsComplete ==
    outputDir /\ ~writesFail /\ phase = "done" =>
        \A s \in Source : out[s] = Rewritten(s)

(* The program does not end in undefined behaviour. *)
NeverAborts == phase # "aborted"

(* Once the program is no longer stopped, the output gets there. *)
OutputsArrive ==
    outputDir /\ ~writesFail /\ closeNull = "return" =>
        <>[](\A s \in Source : out[s] = Rewritten(s))

-----------------------------------------------------------------------------
(* The inductive invariant.  What is written is whole, and a copy is       *)
(* renamed only when it is what is to be written; no version anywhere      *)
(* defines a function twice or in another place than its home; an output   *)
(* file that is not to be written any more is up to date; and a source     *)
(* that is behind its new version, or lacks a definition another source    *)
(* needs, is one that is still to be written.                              *)
Running == phase \in {"files", "write", "rename"}

Pending == lists[1] \cup lists[2] \cup cur

OnceIn(v, s) == \A f \in Fun : v.gen[f] <= 1 /\ (v.gen[f] > 0 => s = home[f])

ControlInv == /\ \A s, t \in cur : s = t
              /\ phase \in {"start", "files", "done", "stopped"} => cur = {}
              /\ phase \in {"start", "done", "stopped"} =>
                    lists[1] = {} /\ lists[2] = {}

WholeInv ==
    ~writesFail => \A s \in Source :
        /\ Whole(s)
        /\ Running => code[s].state = "whole"
        /\ phase = "rename" /\ s \in cur => copy[s] = code[s]

OnceInv == \A s \in Source : /\ OnceIn(disk[s], s) /\ OnceIn(copy[s], s)
                             /\ OnceIn(code[s], s)

OutputInv ==
    outputDir => /\ OutputsSafe
                 /\ phase # "rename" /\ lists[2] = {}
                 /\ Running \/ phase = "done" =>
                      \A s \in Source : code[s] = Rewritten(s)
                 /\ ~writesFail /\ (Running \/ phase = "done") =>
                      \A s \in Source \ (lists[1] \cup cur) : out[s] = code[s]

InPlaceInv ==
    ~outputDir /\ ~writesFail /\ (Running \/ phase = "done") =>
        \A s \in Source : calls[s] # {} =>
            /\ disk[s].redirected \/ s \in Pending
            /\ code[s].redirected

DefinedBySoon(f) ==
    \/ disk[home[f]].gen[f] > 0
    \/ home[f] \in Pending /\ code[home[f]].gen[f] > 0

GrowInv ==
    ~outputDir /\ ~writesFail /\ Running =>
        \A s \in Source : \A f \in Fun : disk[s].gen[f] > 0 => code[s].gen[f] > 0

FollowInv ==
    ~outputDir /\ ~writesFail /\ ~stopped =>
        \A s \in Source :
            disk[s].redirected \/ (Running /\ code[s].redirected) =>
                \A f \in calls[s] : DefinedBySoon(f)

IInv == /\ TypeOK /\ ControlInv /\ WholeInv /\ OnceInv /\ OutputInv
        /\ InPlaceInv /\ GrowInv /\ FollowInv
=============================================================================
