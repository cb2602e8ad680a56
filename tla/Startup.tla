------------------------------ MODULE Startup ------------------------------
(***************************************************************************)
(* Starting the emulator over its files (src/src/Config.cpp:27-66,         *)
(* src/src/MachineConfig.cpp:48-150, src/src/main.cpp:246-345): the user's *)
(* data directory is made, the machine's directory in it, the flash and    *)
(* disk images are copied there from the installation unless they exist,   *)
(* the configuration is saved unless there is one, and the images are      *)
(* opened.  Several instances may start, any system call may fail, and an  *)
(* instance may be killed between any two, or in the midst of a copy.      *)
(*                                                                         *)
(* An instance is started with the default options, with --no-save-config  *)
(* or with --data-directory naming the user's data directory.  The options *)
(* are parsed twice, and the second time (MachineConfig.cpp:120) assigns   *)
(* userDataPath anew: what lines 89-92 have appended to it is lost, while  *)
(* the paths of the files made from it at 103-113 are kept.                *)
(***************************************************************************)
EXTENDS Naturals

CONSTANTS Instances,
          Options     \* the ways of starting an instance

ASSUME InstancesAssumption == Instances # {}
ASSUME OptionsAssumption == Options \subseteq {"default", "--no-save-config", "--data-directory"}

VARIABLES directories,  \* those that exist: the user's "home" for data, the
                        \* "project"'s in it, and the "machine"'s in that
          content,      \* what each file holds
          pc, option,   \* where each instance is, and how it was started
          cut,          \* history: files whose writing was cut short
          faulted,      \* history: instances whose start met a fault
          overlapped    \* history: instances whose start overlapped another

vars == <<directories, content, pc, option, cut, faulted, overlapped>>

Images == {"flash", "disk"}
Files  == Images \cup {"config"}

At(step, file) == [step |-> step, file |-> file]
Going(step)    == At(step, "none")

TypeOK == /\ directories \subseteq {"home", "project", "machine"}
          /\ content \in [Files -> {"absent", "partial", "whole", "used"}]
          /\ pc \in [Instances ->
                [step : {"down", "paths", "project", "machine", "mkdir", "open", "running", "failed"},
                 file : {"none"}] \cup [step : {"exists", "create", "fill"}, file : Files]]
          /\ option \in [Instances -> Options]
          /\ cut \subseteq Files
          /\ faulted \subseteq Instances /\ overlapped \subseteq Instances

Init == /\ directories \in {{}, {"home"}}
        /\ content = [f \in Files |-> "absent"]
        /\ pc = [p \in Instances |-> Going("down")] /\ option \in [Instances -> Options]
        /\ cut = {} /\ faulted = {} /\ overlapped = {}

Starting == {p \in Instances : pc[p].step \notin {"down", "running", "failed"}}

Goes(p, from, to) == pc[p] = from /\ pc' = [pc EXCEPT ![p] = to]

\* An instance that ends by itself: returns a failure or throws.
Fails(p) == pc' = [pc EXCEPT ![p] = Going("failed")]
Faulted(p) == faulted' = faulted \cup {p}

Starts(p) == /\ pc[p].step \in {"down", "failed"}
             /\ pc' = [pc EXCEPT ![p] = Going("paths")]
             /\ \E o \in Options : option' = [option EXCEPT ![p] = o]
             /\ overlapped' = IF Starting = {} THEN overlapped \ {p}
                              ELSE overlapped \cup Starting \cup {p}
             /\ faulted' = faulted \ {p}
             /\ UNCHANGED <<directories, content, cut>>

-----------------------------------------------------------------------------
(* RuntimePaths, before main: a directory that was not there is made, and one    *)
(* made by another instance in between counts as none.                          *)

\* Where an instance goes once its options are parsed.
Parsed(p) == Going(IF option[p] = "--no-save-config" THEN "open" ELSE "machine")

LooksForProject(p) ==
    /\ Goes(p, Going("paths"), IF "project" \in directories THEN Parsed(p) ELSE Going("project"))
    /\ UNCHANGED <<directories, content, option, cut, faulted, overlapped>>

MakesProject(p) ==
    /\ "home" \in directories /\ "project" \notin directories
    /\ Goes(p, Going("project"), Parsed(p))
    /\ directories' = directories \cup {"project"}
    /\ UNCHANGED <<content, option, cut, faulted, overlapped>>

\* There is no home for it, which throws.
HasNoHome(p) ==
    /\ "home" \notin directories /\ Goes(p, Going("project"), Going("failed"))
    /\ Faulted(p)
    /\ UNCHANGED <<directories, content, option, cut, overlapped>>

\* Then --data-directory is required; the files of one with --no-save-config are
\* looked for in the current directory, out of this model.
FindsProjectMade(p) ==
    /\ "project" \in directories
    /\ Goes(p, Going("project"), CASE option[p] = "default" -> Going("failed")
                                   [] option[p] = "--data-directory" -> Going("machine")
                                   [] OTHER -> Going("down"))
    /\ UNCHANGED <<directories, content, option, cut, faulted, overlapped>>

\* The second parse reads the machine's configuration, if it has one.  What is left of one
\* that was cut short may be taken for options, or refused, or name other files, out of
\* this model.
StumblesOverConfig(p) ==
    /\ content["config"] = "partial"
    /\ \E to \in {"failed", "down"} : Goes(p, Parsed(p), Going(to))
    /\ Faulted(p)
    /\ UNCHANGED <<directories, content, option, cut, overlapped>>

-----------------------------------------------------------------------------
(* MachineConfig: the directory, then one file after the other. *)

\* The directory that is made and holds the saved configuration.
userDataPath(p) == IF option[p] = "--data-directory" THEN "project" ELSE "machine"

LooksForMachine(p) ==
    /\ Goes(p, Going("machine"), IF userDataPath(p) \in directories THEN At("exists", "flash")
                                                                    ELSE Going("mkdir"))
    /\ UNCHANGED <<directories, content, option, cut, faulted, overlapped>>

\* Slip: only the last directory of the path is made; there is no "machines" yet.
MakesLastDirectory(p) ==
    /\ Goes(p, Going("mkdir"), Going("failed"))
    /\ UNCHANGED <<directories, content, option, cut, faulted, overlapped>>

MakesMachine(p) ==
    /\ Goes(p, Going("mkdir"), At("exists", "flash"))
    /\ directories' = directories \cup {"project", userDataPath(p)}
    /\ UNCHANGED <<content, option, cut, faulted, overlapped>>

\* With --data-directory the configuration goes to a file that no start reads; it is
\* left out.
After(p, f) == CASE f = "flash" -> At("exists", "disk")
                 [] f = "disk" /\ option[p] = "default" -> At("exists", "config")
                 [] OTHER -> Going("open")

LooksForFile(p, f) ==
    /\ Goes(p, At("exists", f), IF content[f] # "absent" THEN After(p, f) ELSE At("create", f))
    /\ UNCHANGED <<directories, content, option, cut, faulted, overlapped>>

\* Slip: a copy that replaces what is there.
CreatesOver(p, f) ==
    /\ Goes(p, At("create", f), At("fill", f))
    /\ content' = [content EXCEPT ![f] = "partial"]
    /\ UNCHANGED <<directories, option, cut, faulted, overlapped>>

\* The copy of an image only creates a file that is not there, in a directory that
\* is, and throws otherwise; the stream of the configuration empties the file.
CreatesFile(p, f) ==
    /\ IF f = "config" \/ (content[f] = "absent" /\ "machine" \in directories)
       THEN /\ Goes(p, At("create", f), At("fill", f))
            /\ content' = [content EXCEPT ![f] = "partial"]
       ELSE /\ Goes(p, At("create", f), Going("failed"))
            /\ UNCHANGED content
    /\ UNCHANGED <<directories, option, cut, faulted, overlapped>>

\* Slip: what a copy could not write is not missed.
FillsShort(p, f) ==
    /\ Goes(p, At("fill", f), After(p, f))
    /\ content' \in {content, [content EXCEPT ![f] = "whole"]}
    /\ cut' = cut \ {f}
    /\ UNCHANGED <<directories, option, faulted, overlapped>>

FillsFile(p, f) ==
    /\ Goes(p, At("fill", f), After(p, f))
    /\ content' = [content EXCEPT ![f] = "whole"]
    /\ cut' = cut \ {f}
    /\ UNCHANGED <<directories, option, faulted, overlapped>>

\* main: the images must exist; their sizes are not looked at.
OpensImages(p) ==
    /\ IF \A i \in Images : content[i] # "absent"
       THEN Goes(p, Going("open"), Going("running")) /\ UNCHANGED faulted
       ELSE /\ Goes(p, Going("open"), Going("failed"))
            /\ IF option[p] = "--no-save-config" THEN Faulted(p) ELSE UNCHANGED faulted
    /\ UNCHANGED <<directories, content, option, cut, overlapped>>

\* External: the guest changes an image through its mapping.
GuestWrites(p, i) ==
    /\ pc[p] = Going("running") /\ content[i] = "whole"
    /\ content' = [content EXCEPT ![i] = "used"]
    /\ UNCHANGED <<directories, pc, option, cut, faulted, overlapped>>

-----------------------------------------------------------------------------
(* Faults. *)

CutBy(p) == IF pc[p].step = "fill" THEN {pc[p].file} ELSE {}

\* A call fails: everything throws or returns a failure, leaving a file as it is, but
\* for the stream of the configuration, which nothing looks at.
CallFails(p) ==
    /\ p \in Starting
    /\ IF pc[p].step \in {"create", "fill"} /\ pc[p].file = "config"
       THEN pc' = [pc EXCEPT ![p] = Going("open")] ELSE Fails(p)
    /\ cut' = cut \cup CutBy(p) /\ Faulted(p)
    /\ UNCHANGED <<directories, content, option, overlapped>>

Killed(p) == /\ pc[p].step \notin {"down", "failed"}
             /\ pc' = [pc EXCEPT ![p] = Going("down")]
             /\ cut' = cut \cup CutBy(p)
             /\ UNCHANGED <<directories, content, option, faulted, overlapped>>

-----------------------------------------------------------------------------
FileStep(p) == \E f \in Files : LooksForFile(p, f) \/ CreatesFile(p, f) \/ FillsFile(p, f)

Step(p) == \/ LooksForProject(p) \/ MakesProject(p) \/ HasNoHome(p) \/ FindsProjectMade(p)
           \/ StumblesOverConfig(p) \/ LooksForMachine(p) \/ MakesMachine(p)
           \/ FileStep(p) \/ OpensImages(p)

Next == \E p \in Instances : \/ Starts(p) \/ Step(p) \/ CallFails(p) \/ Killed(p)
                             \/ \E i \in Images : GuestWrites(p, i)

Spec == Init /\ [][Next]_vars

-----------------------------------------------------------------------------
\* A file that is not whole is being written, or its writing was cut short by the
\* death of the writer or a failure: instances that race for it leave it whole
\* (MachineConfig.cpp:136-149).
WholeUnlessCut ==
    \A f \in Files : content[f] = "partial" => f \in cut \/ \E p \in Instances : pc[p] = At("fill", f)

\* "copy over images if needed" (MachineConfig.cpp:135): a start never touches an
\* image that is there, though another instance may have put it there since the test.
NeverOverwritten ==
    [][\A i \in Images : content[i] # "absent" /\ content'[i] # content[i] =>
           \/ content[i] = "partial" /\ \E p \in Instances : pc[p] = At("fill", i)
           \/ \E p \in Instances : pc[p] = Going("running")]_vars

\* "populate the machine directory if necessary" (MachineConfig.cpp:127): whatever
\* earlier starts have left behind, a start at which no call fails, that no other
\* start overlaps, that does not stumble over a configuration cut short (118-125), and
\* that may make what it misses, succeeds.  Instances that start at
\* the same time may fail each other, but not all of them: one gets what the others
\* have made way for (Config.cpp:58-64, MachineConfig.cpp:136-142).
StartSucceeds ==
    /\ \A p \in Instances : pc[p].step = "failed" => p \in faulted \cup overlapped
    /\ (\A p \in Instances : pc[p].step = "failed") => faulted # {}
=============================================================================
