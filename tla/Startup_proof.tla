---------------------------- MODULE Startup_proof ----------------------------
(***************************************************************************)
(* Proofs about Startup, for every number of instances: files are whole    *)
(* unless their writing was cut short, images are never overwritten, and   *)
(* starts without a fault succeed unless they fail each other.             *)
(***************************************************************************)
EXTENDS Startup, TLAPS

\* Every step is an action of one instance, or a stutter.
LEMMA Steps ==
    ASSUME [Next]_vars
    PROVE  \/ \E p \in Instances :
                 \/ Starts(p) \/ LooksForProject(p) \/ MakesProject(p) \/ HasNoHome(p)
                 \/ StumblesOverConfig(p)
                 \/ FindsProjectMade(p) \/ LooksForMachine(p) \/ MakesMachine(p)
                 \/ \E f \in Files : LooksForFile(p, f) \/ CreatesFile(p, f) \/ FillsFile(p, f)
                 \/ OpensImages(p) \/ CallFails(p) \/ Killed(p)
                 \/ \E i \in Images : GuestWrites(p, i)
           \/ UNCHANGED vars
  BY DEF Next, Step, FileStep

THEOREM TypeCorrect == Spec => []TypeOK
<1>. USE DEF TypeOK, Files, Images, At, Going
<1>1. Init => TypeOK
  BY DEF Init
<1>2. TypeOK /\ [Next]_vars => TypeOK'
  <2>. SUFFICES ASSUME TypeOK, [Next]_vars PROVE TypeOK'
    OBVIOUS
  <2>. USE DEF Goes, Fails, Faulted
  <2>1. ASSUME NEW p \in Instances, Starts(p) PROVE TypeOK'
    BY <2>1 DEF Starts, Starting
  <2>2. ASSUME NEW p \in Instances,
               \/ LooksForProject(p) \/ MakesProject(p) \/ HasNoHome(p) \/ FindsProjectMade(p)
               \/ StumblesOverConfig(p)
        PROVE  TypeOK'
    BY <2>2 DEF LooksForProject, MakesProject, HasNoHome, FindsProjectMade, StumblesOverConfig,
                Parsed
  <2>3. ASSUME NEW p \in Instances, LooksForMachine(p) \/ MakesMachine(p) PROVE TypeOK'
    <3>1. userDataPath(p) \in {"project", "machine"}
      BY DEF userDataPath
    <3>2. directories' \subseteq {"home", "project", "machine"}
      BY <2>3, <3>1 DEF LooksForMachine, MakesMachine
    <3>3. CASE LooksForMachine(p)
      BY <3>2, <3>3 DEF LooksForMachine
    <3>4. CASE MakesMachine(p)
      BY <3>2, <3>4 DEF MakesMachine
    <3>. QED
      BY <2>3, <3>3, <3>4
  <2>4. ASSUME NEW p \in Instances, NEW f \in Files, LooksForFile(p, f) PROVE TypeOK'
    BY <2>4 DEF LooksForFile, After
  <2>5. ASSUME NEW p \in Instances, NEW f \in Files, CreatesFile(p, f) PROVE TypeOK'
    BY <2>5 DEF CreatesFile
  <2>6. ASSUME NEW p \in Instances, NEW f \in Files, FillsFile(p, f) PROVE TypeOK'
    BY <2>6 DEF FillsFile, After
  <2>7. ASSUME NEW p \in Instances, OpensImages(p) PROVE TypeOK'
    BY <2>7 DEF OpensImages
  <2>8. ASSUME NEW p \in Instances, CallFails(p) \/ Killed(p) PROVE TypeOK'
    <3>1. CutBy(p) \subseteq Files
      BY DEF CutBy
    <3>2. cut' \subseteq Files
      BY <2>8, <3>1 DEF CallFails, Killed
    <3>3. \E to \in {Going("open"), Going("failed"), Going("down")} : pc' = [pc EXCEPT ![p] = to]
      BY <2>8 DEF CallFails, Killed
    <3>4. faulted' \subseteq Instances /\ UNCHANGED <<content, option, directories, overlapped>>
      BY <2>8 DEF CallFails, Killed
    <3>. QED
      BY <3>2, <3>3, <3>4
  <2>9. ASSUME NEW p \in Instances, NEW i \in Images, GuestWrites(p, i) PROVE TypeOK'
    BY <2>9 DEF GuestWrites
  <2>10. CASE UNCHANGED vars
    BY <2>10 DEF vars
  <2>. QED
    BY <2>1, <2>2, <2>3, <2>4, <2>5, <2>6, <2>7, <2>8, <2>9, <2>10, Steps
<1>. QED
  BY <1>1, <1>2, PTL DEF Spec

-----------------------------------------------------------------------------
LEMMA AtIs == ASSUME NEW step, NEW file
              PROVE  At(step, file).step = step /\ At(step, file).file = file
  BY DEF At

LEMMA GoingIs == ASSUME NEW step PROVE Going(step).step = step /\ Going(step).file = "none"
  BY AtIs DEF Going

LEMMA PlaceIs == ASSUME TypeOK, NEW p \in Instances
                 PROVE  /\ pc[p] = At(pc[p].step, pc[p].file)
                        /\ pc[p].step \in {"exists", "create", "fill"} <=> pc[p].file \in Files
                        /\ pc[p].step \notin {"exists", "create", "fill"} => pc[p] = Going(pc[p].step)
  BY DEF TypeOK, At, Going, Files, Images

\* An action moves no other instance.
LEMMA Moves ==
    ASSUME TypeOK, NEW p \in Instances, NEW to, pc' = [pc EXCEPT ![p] = to]
    PROVE  pc'[p] = to /\ \A q \in Instances \ {p} : pc'[q] = pc[q]
  BY DEF TypeOK

\* A file can only stop being written, without being filled, by the death of the writer or a
\* failure, which cuts it short.
LEMMA WholeStep == TypeOK /\ WholeUnlessCut /\ [Next]_vars => WholeUnlessCut'
<1>. SUFFICES ASSUME TypeOK, WholeUnlessCut, [Next]_vars PROVE WholeUnlessCut'
  OBVIOUS
<1>. USE AtIs, Moves
<1>1. ASSUME NEW p \in Instances, NEW to, pc' = [pc EXCEPT ![p] = to],
             UNCHANGED <<content, cut>>, pc[p].step # "fill"
      PROVE  WholeUnlessCut'
  <2>1. \A q \in Instances, f \in Files : pc[q] = At("fill", f) => pc'[q] = At("fill", f)
    BY <1>1
  <2>. QED
    BY <1>1, <2>1 DEF WholeUnlessCut
<1>2. ASSUME NEW p \in Instances,
             \/ Starts(p) \/ LooksForProject(p) \/ MakesProject(p) \/ HasNoHome(p)
             \/ StumblesOverConfig(p) \/ FindsProjectMade(p) \/ LooksForMachine(p)
             \/ MakesMachine(p) \/ OpensImages(p)
      PROVE  WholeUnlessCut'
  <2>1. pc[p].step # "fill" /\ UNCHANGED <<content, cut>>
    BY <1>2 DEF Starts, LooksForProject, MakesProject, HasNoHome, FindsProjectMade, StumblesOverConfig,
                LooksForMachine, MakesMachine, OpensImages, Goes, Going, Parsed
  <2>2. \E to : pc' = [pc EXCEPT ![p] = to]
    BY <1>2 DEF Starts, LooksForProject, MakesProject, HasNoHome, FindsProjectMade, StumblesOverConfig,
                LooksForMachine, MakesMachine, OpensImages, Goes
  <2>. QED
    BY <1>1, <2>1, <2>2
<1>3. ASSUME NEW p \in Instances, NEW f \in Files, LooksForFile(p, f) PROVE WholeUnlessCut'
  <2>1. pc[p].step = "exists" /\ UNCHANGED <<content, cut>>
    BY <1>3 DEF LooksForFile, Goes
  <2>2. \E to : pc' = [pc EXCEPT ![p] = to]
    BY <1>3 DEF LooksForFile, Goes
  <2>. QED
    BY <1>1, <2>1, <2>2
<1>4. ASSUME NEW p \in Instances, NEW f \in Files, CreatesFile(p, f) PROVE WholeUnlessCut'
  <2>1. pc[p].step = "create" /\ cut' = cut
    BY <1>4 DEF CreatesFile, Goes
  <2>2. CASE content' = content /\ \E to : pc' = [pc EXCEPT ![p] = to]
    BY <1>1, <2>1, <2>2
  <2>3. CASE content' = [content EXCEPT ![f] = "partial"] /\ pc' = [pc EXCEPT ![p] = At("fill", f)]
    <3>1. \A q \in Instances, g \in Files : pc[q] = At("fill", g) => pc'[q] = At("fill", g)
      BY <2>1, <2>3
    <3>2. \A g \in Files \ {f} : content'[g] = content[g]
      BY <2>3 DEF TypeOK
    <3>3. pc'[p] = At("fill", f)
      BY <2>3
    <3>. QED
      BY <2>1, <3>1, <3>2, <3>3 DEF WholeUnlessCut
  <2>. QED
    BY <1>4, <2>2, <2>3 DEF CreatesFile, Goes
<1>5. ASSUME NEW p \in Instances, NEW f \in Files, FillsFile(p, f) PROVE WholeUnlessCut'
  <2>1. \A q \in Instances, g \in Files \ {f} : pc[q] = At("fill", g) => pc'[q] = At("fill", g)
    BY <1>5 DEF FillsFile, Goes
  <2>2. /\ content'[f] = "whole" /\ cut \ {f} \subseteq cut'
        /\ \A g \in Files \ {f} : content'[g] = content[g]
    BY <1>5 DEF FillsFile, TypeOK
  <2>. QED
    BY <2>1, <2>2 DEF WholeUnlessCut
<1>6. ASSUME NEW p \in Instances, CallFails(p) \/ Killed(p) PROVE WholeUnlessCut'
  <2>1. \A f : pc[p] = At("fill", f) => f \in cut'
    BY <1>6 DEF CallFails, Killed, CutBy
  <2>2. cut \subseteq cut' /\ content' = content /\ \E to : pc' = [pc EXCEPT ![p] = to]
    BY <1>6 DEF CallFails, Killed, Fails
  <2>. QED
    BY <2>1, <2>2 DEF WholeUnlessCut
<1>7. ASSUME NEW p \in Instances, NEW i \in Images, GuestWrites(p, i) PROVE WholeUnlessCut'
  BY <1>7 DEF GuestWrites, TypeOK, WholeUnlessCut
<1>8. CASE UNCHANGED vars
  BY <1>8 DEF vars, WholeUnlessCut
<1>. QED
  BY <1>2, <1>3, <1>4, <1>5, <1>6, <1>7, <1>8, Steps

\* A file that is not whole is being written, or its writing was cut short.
THEOREM WholeUnlessCutCorrect == Spec => []WholeUnlessCut
<1>1. Init => WholeUnlessCut
  BY DEF Init, WholeUnlessCut
<1>. QED
  BY <1>1, WholeStep, TypeCorrect, PTL DEF Spec

-----------------------------------------------------------------------------
(* What is there stays, and what an instance has passed is there.              *)

\* No step takes a directory or a file away.
LEMMA Growing ==
    ASSUME TypeOK, [Next]_vars
    PROVE  /\ directories \subseteq directories'
           /\ \A f \in Files : content[f] # "absent" => content'[f] # "absent"
<1>1. ASSUME NEW p \in Instances, NEW f \in Files,
             LooksForFile(p, f) \/ CreatesFile(p, f) \/ FillsFile(p, f)
      PROVE  UNCHANGED directories
             /\ (content' = content \/ \E c \in {"partial", "whole"} : content' = [content EXCEPT ![f] = c])
  BY <1>1 DEF LooksForFile, CreatesFile, FillsFile
<1>2. ASSUME NEW p \in Instances,
             \/ Starts(p) \/ LooksForProject(p) \/ MakesProject(p) \/ HasNoHome(p)
             \/ StumblesOverConfig(p) \/ FindsProjectMade(p) \/ LooksForMachine(p)
             \/ MakesMachine(p) \/ OpensImages(p)
             \/ CallFails(p) \/ Killed(p)
      PROVE  directories \subseteq directories' /\ content' = content
  BY <1>2 DEF Starts, LooksForProject, MakesProject, HasNoHome, FindsProjectMade, StumblesOverConfig,
              LooksForMachine, MakesMachine, OpensImages, CallFails, Killed
<1>3. ASSUME NEW p \in Instances, NEW i \in Images, GuestWrites(p, i)
      PROVE  UNCHANGED directories /\ content' = [content EXCEPT ![i] = "used"]
  BY <1>3 DEF GuestWrites
<1>4. UNCHANGED vars => UNCHANGED <<directories, content>>
  BY DEF vars
<1>. QED
  BY <1>1, <1>2, <1>3, <1>4, Steps DEF TypeOK

\* The machine's directory is made before its files, and each file before the next; at
\* the opening of the images, an instance with the default options has them.
Ordered(p) ==
    /\ pc[p].step \in {"exists", "create", "fill"} =>
           /\ "machine" \in directories
           /\ pc[p].file \in {"disk", "config"} => content["flash"] # "absent"
           /\ pc[p].file = "config" => content["disk"] # "absent"
    /\ pc[p].step = "fill" => content[pc[p].file] # "absent"
    /\ pc[p].step = "open" /\ option[p] = "default" =>
           content["flash"] # "absent" /\ content["disk"] # "absent"

OrderInv == \A p \in Instances : Ordered(p)

LEMMA OrderStep ==
    ASSUME "--data-directory" \notin Options, TypeOK, OrderInv, [Next]_vars
    PROVE  OrderInv'
<1>. DEFINE Only(p) == \A q \in Instances \ {p} : pc'[q] = pc[q] /\ option'[q] = option[q]
<1>1. ASSUME NEW p \in Instances, Only(p), Ordered(p)' PROVE OrderInv'
  <2>1. ASSUME NEW q \in Instances \ {p} PROVE Ordered(q)'
    BY <1>1, <2>1, Growing, PlaceIs DEF OrderInv, Ordered, Files, Images
  <2>. QED
    BY <1>1, <2>1 DEF OrderInv
<1>. USE AtIs, Moves
<1>2. ASSUME NEW p \in Instances, Starts(p) PROVE OrderInv'
  <2>1. Only(p)
    BY <1>2 DEF Starts, TypeOK
  <2>. QED
    BY <1>1, <1>2, <2>1 DEF Starts, Ordered, Going
<1>. HIDE DEF Only
<1>3. ASSUME NEW p \in Instances, NEW to, pc' = [pc EXCEPT ![p] = to], UNCHANGED option
      PROVE  Only(p) /\ pc'[p] = to
  BY <1>3 DEF Only
<1>4. ASSUME NEW p \in Instances,
             \/ LooksForProject(p) \/ MakesProject(p) \/ HasNoHome(p) \/ FindsProjectMade(p)
             \/ StumblesOverConfig(p)
      PROVE  OrderInv'
  <2>1. \E to \in {Parsed(p), Going("project"), Going("machine"), Going("down"), Going("failed")} :
           pc' = [pc EXCEPT ![p] = to] /\ UNCHANGED option
    BY <1>4 DEF LooksForProject, MakesProject, HasNoHome, FindsProjectMade, StumblesOverConfig, Goes
  <2>2. Parsed(p) = Going("machine") \/ (Parsed(p) = Going("open") /\ option[p] # "default")
    BY DEF Parsed
  <2>3. \/ pc'[p] \in {Going("project"), Going("machine"), Going("down"), Going("failed")}
        \/ pc'[p] = Going("open") /\ option'[p] # "default"
    BY <1>3, <2>1, <2>2
  <2>4. Ordered(p)'
    BY <2>3 DEF Ordered, Going
  <2>. QED
    BY <1>1, <1>3, <2>1, <2>4
<1>5. ASSUME NEW p \in Instances, LooksForMachine(p) \/ MakesMachine(p) PROVE OrderInv'
  <2>1. userDataPath(p) = "machine"
    BY DEF userDataPath, TypeOK
  <2>2. \/ pc' = [pc EXCEPT ![p] = Going("mkdir")] /\ UNCHANGED option
        \/ pc' = [pc EXCEPT ![p] = At("exists", "flash")] /\ UNCHANGED option /\ "machine" \in directories'
    BY <1>5, <2>1 DEF LooksForMachine, MakesMachine, Goes
  <2>3. CASE pc' = [pc EXCEPT ![p] = Going("mkdir")] /\ UNCHANGED option
    <3>1. Only(p) /\ pc'[p] = Going("mkdir")
      BY <1>3, <2>3
    <3>2. Ordered(p)'
      BY <3>1 DEF Ordered, Going
    <3>. QED
      BY <1>1, <3>1, <3>2
  <2>4. CASE /\ pc' = [pc EXCEPT ![p] = At("exists", "flash")] /\ UNCHANGED option
             /\ "machine" \in directories'
    <3>1. Only(p) /\ pc'[p] = At("exists", "flash")
      BY <1>3, <2>4
    <3>2. Ordered(p)'
      BY <2>4, <3>1 DEF Ordered, Going
    <3>. QED
      BY <1>1, <3>1, <3>2
  <2>. QED
    BY <2>2, <2>3, <2>4
<1>6. ASSUME NEW p \in Instances, NEW f \in Files, LooksForFile(p, f) \/ FillsFile(p, f) PROVE OrderInv'
  <2>1. /\ pc' = [pc EXCEPT ![p] = At("create", f)] \/ pc' = [pc EXCEPT ![p] = After(p, f)]
        /\ pc' # [pc EXCEPT ![p] = At("create", f)] => content'[f] # "absent"
        /\ UNCHANGED <<option, directories>>
        /\ pc[p].step \in {"exists", "fill"} /\ pc[p].file = f
    BY <1>6 DEF LooksForFile, FillsFile, Goes, TypeOK
  <2>. QED
    BY <1>1, <1>3, <2>1, Growing DEF OrderInv, Ordered, Going, After, Files, Images
<1>7. ASSUME NEW p \in Instances, NEW f \in Files, CreatesFile(p, f) PROVE OrderInv'
  BY <1>1, <1>3, <1>7, Growing DEF CreatesFile, Goes, OrderInv, Ordered, Going, Files, Images, TypeOK
<1>8. ASSUME NEW p \in Instances, OpensImages(p) \/ Killed(p) PROVE OrderInv'
  BY <1>1, <1>3, <1>8 DEF OpensImages, Killed, Goes, Ordered, Going
<1>9. ASSUME NEW p \in Instances, CallFails(p) PROVE OrderInv'
  <2>1. \/ pc' = [pc EXCEPT ![p] = Going("failed")] /\ UNCHANGED option
        \/ /\ pc' = [pc EXCEPT ![p] = Going("open")] /\ UNCHANGED <<option, content>>
           /\ pc[p].step \in {"create", "fill"} /\ pc[p].file = "config"
    BY <1>9 DEF CallFails, Fails
  <2>. QED
    BY <1>1, <1>3, <2>1 DEF OrderInv, Ordered, Going
<1>10. ASSUME NEW p \in Instances, NEW i \in Images, GuestWrites(p, i) PROVE OrderInv'
  BY <1>10, Growing, PlaceIs DEF GuestWrites, OrderInv, Ordered, Files, Images
<1>11. CASE UNCHANGED vars
  BY <1>11 DEF vars, OrderInv, Ordered
<1>. QED
  BY <1>2, <1>4, <1>5, <1>6, <1>7, <1>8, <1>9, <1>10, <1>11, Steps

-----------------------------------------------------------------------------
(* Images are not overwritten. *)

\* An image that is being filled is still partial, and filled by one instance.
FillInv ==
    \A i \in Images : \A p \in Instances : pc[p] = At("fill", i) =>
        /\ content[i] = "partial"
        /\ \A q \in Instances \ {p} : pc[q] # At("fill", i)

LEMMA FillStep == TypeOK /\ FillInv /\ [Next]_vars => FillInv'
<1>. SUFFICES ASSUME TypeOK, FillInv, [Next]_vars PROVE FillInv'
  OBVIOUS
<1>. USE AtIs, GoingIs, Moves
<1>1. ASSUME NEW p \in Instances, pc'[p].step # "fill",
             \A q \in Instances \ {p} : pc'[q] = pc[q],
             \A i \in Images : \A q \in Instances \ {p} : pc[q] = At("fill", i) => content'[i] = content[i]
      PROVE  FillInv'
  <2>1. ASSUME NEW i \in Images, NEW q \in Instances, pc'[q] = At("fill", i)
        PROVE  q # p /\ pc[q] = At("fill", i)
    BY <1>1, <2>1
  <2>2. ASSUME NEW i \in Images, NEW q \in Instances, pc'[q] = At("fill", i)
        PROVE  /\ content'[i] = "partial"
               /\ \A r \in Instances \ {q} : pc'[r] # At("fill", i)
    BY <1>1, <2>1, <2>2 DEF FillInv
  <2>. QED
    BY <2>2 DEF FillInv
<1>2. ASSUME NEW p \in Instances,
             \/ Starts(p) \/ LooksForProject(p) \/ MakesProject(p) \/ HasNoHome(p)
             \/ StumblesOverConfig(p) \/ FindsProjectMade(p) \/ OpensImages(p) \/ CallFails(p) \/ Killed(p)
      PROVE  FillInv'
  <2>. DEFINE Targets == {Parsed(p), Going("paths"), Going("project"), Going("machine"),
                          Going("down"), Going("failed"), Going("running"), Going("open")}
  <2>1. content' = content /\ \E to \in Targets : pc' = [pc EXCEPT ![p] = to]
    BY <1>2 DEF Starts, LooksForProject, MakesProject, HasNoHome, FindsProjectMade, StumblesOverConfig, OpensImages,
                CallFails, Killed, Goes, Fails
  <2>2. \A to \in Targets : to.step # "fill"
    BY DEF Parsed
  <2>. HIDE DEF Targets
  <2>. PICK to \in Targets : pc' = [pc EXCEPT ![p] = to]
    BY <2>1
  <2>3. pc'[p] = to /\ \A q \in Instances \ {p} : pc'[q] = pc[q]
    OBVIOUS
  <2>. QED
    BY <1>1, <2>1, <2>2, <2>3
<1>3. ASSUME NEW p \in Instances, LooksForMachine(p) \/ MakesMachine(p) PROVE FillInv'
  <2>. DEFINE Targets == {Going("mkdir"), At("exists", "flash")}
  <2>1. content' = content /\ \E to \in Targets : pc' = [pc EXCEPT ![p] = to]
    BY <1>3 DEF LooksForMachine, MakesMachine, Goes
  <2>2. \A to \in Targets : to.step # "fill"
    OBVIOUS
  <2>. HIDE DEF Targets
  <2>. PICK to \in Targets : pc' = [pc EXCEPT ![p] = to]
    BY <2>1
  <2>3. pc'[p] = to /\ \A q \in Instances \ {p} : pc'[q] = pc[q]
    OBVIOUS
  <2>. QED
    BY <1>1, <2>1, <2>2, <2>3
<1>4. ASSUME NEW p \in Instances, NEW f \in Files, LooksForFile(p, f) PROVE FillInv'
  <2>. DEFINE Targets == {After(p, f), At("create", f)}
  <2>1. content' = content /\ \E to \in Targets : pc' = [pc EXCEPT ![p] = to]
    BY <1>4 DEF LooksForFile, Goes
  <2>2. \A to \in Targets : to.step # "fill"
    BY DEF After
  <2>. HIDE DEF Targets
  <2>. PICK to \in Targets : pc' = [pc EXCEPT ![p] = to]
    BY <2>1
  <2>3. pc'[p] = to /\ \A q \in Instances \ {p} : pc'[q] = pc[q]
    OBVIOUS
  <2>. QED
    BY <1>1, <2>1, <2>2, <2>3
<1>5. ASSUME NEW p \in Instances, NEW f \in Files, FillsFile(p, f) PROVE FillInv'
  <2>1. /\ pc[p] = At("fill", f) /\ pc' = [pc EXCEPT ![p] = After(p, f)]
        /\ content' = [content EXCEPT ![f] = "whole"]
    BY <1>5 DEF FillsFile, Goes
  <2>2. \A i \in Images : \A q \in Instances \ {p} : pc[q] = At("fill", i) => i # f
    BY <2>1 DEF FillInv
  <2>3. After(p, f).step # "fill"
    BY DEF After
  <2>. QED
    BY <1>1, <2>1, <2>2, <2>3 DEF TypeOK, Files
<1>6. ASSUME NEW p \in Instances, NEW f \in Files, CreatesFile(p, f) PROVE FillInv'
  <2>1. CASE content' = content /\ pc' = [pc EXCEPT ![p] = Going("failed")]
    <3>1. pc'[p] = Going("failed") /\ \A q \in Instances \ {p} : pc'[q] = pc[q]
      BY <2>1
    <3>. QED
      BY <1>1, <2>1, <3>1
  <2>2. CASE /\ f \in Images => content[f] = "absent"
             /\ content' = [content EXCEPT ![f] = "partial"] /\ pc' = [pc EXCEPT ![p] = At("fill", f)]
    <3>1. \A i \in Images : \A q \in Instances \ {p} : pc[q] = At("fill", i) => i # f
      BY <2>2 DEF FillInv
    <3>. QED
      BY <2>2, <3>1 DEF FillInv, TypeOK, Files
  <2>. QED
    BY <1>6, <2>1, <2>2 DEF CreatesFile, Goes, Images
<1>7. ASSUME NEW p \in Instances, NEW i \in Images, GuestWrites(p, i) PROVE FillInv'
  BY <1>7 DEF GuestWrites, FillInv, TypeOK, Files
<1>8. CASE UNCHANGED vars
  BY <1>8 DEF vars, FillInv
<1>. QED
  BY <1>2, <1>3, <1>4, <1>5, <1>6, <1>7, <1>8, Steps

LEMMA ImagesKept ==
    ASSUME TypeOK, FillInv, [Next]_vars, NEW i \in Images,
           content[i] # "absent", content'[i] # content[i]
    PROVE  \/ content[i] = "partial" /\ \E p \in Instances : pc[p] = At("fill", i)
           \/ \E p \in Instances : pc[p] = Going("running")
<1>1. ASSUME NEW p \in Instances,
             \/ Starts(p) \/ LooksForProject(p) \/ MakesProject(p) \/ HasNoHome(p)
             \/ StumblesOverConfig(p) \/ FindsProjectMade(p) \/ LooksForMachine(p)
             \/ MakesMachine(p) \/ OpensImages(p)
             \/ CallFails(p) \/ Killed(p)
      PROVE  content' = content
  BY <1>1 DEF Starts, LooksForProject, MakesProject, HasNoHome, FindsProjectMade, StumblesOverConfig,
              LooksForMachine, MakesMachine, OpensImages, CallFails, Killed
<1>2. ASSUME NEW p \in Instances, NEW f \in Files, LooksForFile(p, f) \/ CreatesFile(p, f)
      PROVE  content'[i] = content[i]
  BY <1>2 DEF LooksForFile, CreatesFile, TypeOK, Files, Images
<1>3. ASSUME NEW p \in Instances, NEW f \in Files, FillsFile(p, f)
      PROVE  content[i] = "partial" /\ pc[p] = At("fill", i)
  BY <1>3 DEF FillsFile, Goes, FillInv, TypeOK, Files
<1>4. ASSUME NEW p \in Instances, NEW j \in Images, GuestWrites(p, j)
      PROVE  pc[p] = Going("running")
  BY <1>4 DEF GuestWrites
<1>5. UNCHANGED vars => content' = content
  BY DEF vars
<1>. QED
  BY <1>1, <1>2, <1>3, <1>4, <1>5, Steps

\* A start never touches an image that is there.
THEOREM NeverOverwrittenCorrect == Spec => NeverOverwritten
<1>1. Init => FillInv
  BY DEF Init, FillInv, At, Going
<1>2. TypeOK /\ FillInv /\ [Next]_vars =>
        [\A i \in Images : content[i] # "absent" /\ content'[i] # content[i] =>
           \/ content[i] = "partial" /\ \E p \in Instances : pc[p] = At("fill", i)
           \/ \E p \in Instances : pc[p] = Going("running")]_vars
  BY ImagesKept
<1>. QED
  BY <1>1, <1>2, FillStep, TypeCorrect, PTL DEF Spec, NeverOverwritten

-----------------------------------------------------------------------------
(* Starts succeed. *)

\* What an instance found missing is still missing.
StillMissing(p) == /\ pc[p] = Going("project") => "project" \notin directories
                   /\ \A i \in Images : pc[p] = At("create", i) => content[i] = "absent"

\* An instance whose start cannot fail, without a fault, at the step it is at.
Hopeful(p) == pc[p].step # "failed" /\ StillMissing(p)

\* Unless there was a fault there is one: the instance that makes a directory or an image
\* others have found missing takes over from them.
HopeInv == faulted # {} \/ \E p \in Instances : Hopeful(p)

LEMMA MovesTo ==
    ASSUME TypeOK, NEW p \in Instances, NEW to, pc' = [pc EXCEPT ![p] = to]
    PROVE  to.step \notin {"failed", "project", "create"} => Hopeful(p)'
<1>1. pc'[p] = to
  BY Moves
<1>. QED
  BY <1>1, AtIs, GoingIs DEF Hopeful, StillMissing

LEMMA ParsedIs ==
    ASSUME NEW p
    PROVE  /\ Parsed(p).step \in {"open", "machine"}
           /\ Parsed(p) = Going("open") => option[p] # "default"
  BY GoingIs DEF Parsed

LEMMA AfterIs == ASSUME NEW p, NEW f
                 PROVE  After(p, f).step \in {"exists", "open"}
  BY AtIs, GoingIs DEF After

\* An image that is to be opened is missing only where --no-save-config makes it a fault.
LEMMA OpeningFails ==
    ASSUME "--data-directory" \notin Options, TypeOK, OrderInv, NEW p \in Instances, OpensImages(p)
    PROVE  pc' = [pc EXCEPT ![p] = Going("running")] \/ faulted' = faulted \cup {p}
<1>1. pc[p].step = "open"
  BY GoingIs DEF OpensImages, Goes
<1>2. option[p] = "default" => \A i \in Images : content[i] # "absent"
  BY <1>1 DEF OrderInv, Ordered, Images
<1>3. option[p] \in {"default", "--no-save-config"}
  BY OptionsAssumption DEF TypeOK
<1>. QED
  BY <1>2, <1>3 DEF OpensImages, Goes, Faulted

\* A copy fails only where another instance has made the image.
LEMMA CreatingFails ==
    ASSUME TypeOK, OrderInv, NEW p \in Instances, NEW f \in Files, CreatesFile(p, f)
    PROVE  \/ pc' = [pc EXCEPT ![p] = At("fill", f)]
           \/ /\ f \in Images /\ content[f] # "absent"
              /\ pc[p] = At("create", f) /\ pc' = [pc EXCEPT ![p] = Going("failed")]
              /\ UNCHANGED content
<1>1. pc[p] = At("create", f)
  BY DEF CreatesFile, Goes
<1>2. "machine" \in directories
  BY <1>1, AtIs DEF OrderInv, Ordered
<1>. QED
  BY <1>1, <1>2 DEF CreatesFile, Goes, Files

LEMMA HopeStep ==
    ASSUME "--data-directory" \notin Options, TypeOK, OrderInv, HopeInv, [Next]_vars
    PROVE  HopeInv'
<1>. USE AtIs, GoingIs
<1>1. ASSUME NEW p \in Instances, Hopeful(p)' \/ faulted' # {} PROVE HopeInv'
  BY <1>1 DEF HopeInv
<1>2. ASSUME NEW p \in Instances, NEW to, pc' = [pc EXCEPT ![p] = to], faulted' = faulted,
             UNCHANGED <<directories, content>>, ~Hopeful(p)
      PROVE  HopeInv'
  <2>1. ASSUME NEW q \in Instances \ {p}, Hopeful(q) PROVE Hopeful(q)'
    BY <1>2, <2>1, Moves DEF Hopeful, StillMissing
  <2>. QED
    BY <1>2, <2>1 DEF HopeInv
<1>3. ASSUME NEW p \in Instances, \/ Starts(p) \/ Killed(p) \/ CallFails(p)
                                  \/ HasNoHome(p) \/ StumblesOverConfig(p)
      PROVE  HopeInv'
  BY <1>1, <1>3, MovesTo DEF Starts, Killed, CallFails, HasNoHome, StumblesOverConfig, Faulted
<1>4. ASSUME NEW p \in Instances, LooksForProject(p) PROVE HopeInv'
  <2>1. CASE pc' = [pc EXCEPT ![p] = Parsed(p)]
    BY <1>1, <2>1, MovesTo, ParsedIs
  <2>2. CASE pc' = [pc EXCEPT ![p] = Going("project")] /\ "project" \notin directories'
    <3>1. pc'[p] = Going("project")
      BY <2>2, Moves
    <3>. QED
      BY <1>1, <2>2, <3>1 DEF Hopeful, StillMissing
  <2>. QED
    BY <1>4, <2>1, <2>2 DEF LooksForProject, Goes
<1>5. ASSUME NEW p \in Instances, MakesProject(p) PROVE HopeInv'
  BY <1>1, <1>5, MovesTo, ParsedIs DEF MakesProject, Goes
<1>6. ASSUME NEW p \in Instances, FindsProjectMade(p) PROVE HopeInv'
  <2>1. ~Hopeful(p)
    BY <1>6 DEF FindsProjectMade, Goes, Hopeful, StillMissing
  <2>. QED
    BY <1>2, <1>6, <2>1 DEF FindsProjectMade, Goes
<1>7. ASSUME NEW p \in Instances, LooksForMachine(p) \/ MakesMachine(p) PROVE HopeInv'
  BY <1>1, <1>7, MovesTo DEF LooksForMachine, MakesMachine, Goes
<1>8. ASSUME NEW p \in Instances, NEW f \in Files, LooksForFile(p, f) PROVE HopeInv'
  <2>1. CASE pc' = [pc EXCEPT ![p] = After(p, f)]
    BY <1>1, <2>1, MovesTo, AfterIs
  <2>2. CASE pc' = [pc EXCEPT ![p] = At("create", f)] /\ content'[f] = "absent"
    <3>1. pc'[p] = At("create", f)
      BY <2>2, Moves
    <3>. QED
      BY <1>1, <2>2, <3>1 DEF Hopeful, StillMissing
  <2>. QED
    BY <1>8, <2>1, <2>2 DEF LooksForFile, Goes
<1>9. ASSUME NEW p \in Instances, NEW f \in Files, CreatesFile(p, f) PROVE HopeInv'
  <2>1. CASE pc' = [pc EXCEPT ![p] = At("fill", f)]
    BY <1>1, <2>1, MovesTo
  <2>2. CASE /\ f \in Images /\ content[f] # "absent" /\ pc[p] = At("create", f)
             /\ pc' = [pc EXCEPT ![p] = Going("failed")] /\ UNCHANGED content
    <3>1. ~Hopeful(p)
      BY <2>2 DEF Hopeful, StillMissing
    <3>. QED
      BY <1>2, <1>9, <2>2, <3>1 DEF CreatesFile
  <2>. QED
    BY <1>9, <2>1, <2>2, CreatingFails
<1>10. ASSUME NEW p \in Instances, NEW f \in Files, FillsFile(p, f) PROVE HopeInv'
  BY <1>1, <1>10, MovesTo, AfterIs DEF FillsFile, Goes
<1>11. ASSUME NEW p \in Instances, OpensImages(p) PROVE HopeInv'
  BY <1>1, <1>11, MovesTo, OpeningFails
<1>12. ASSUME NEW p \in Instances, NEW i \in Images, GuestWrites(p, i) PROVE HopeInv'
  BY <1>1, <1>12 DEF GuestWrites, Hopeful, StillMissing
<1>13. CASE UNCHANGED vars
  BY <1>13 DEF vars, HopeInv, Hopeful, StillMissing
<1>. QED
  BY <1>3, <1>4, <1>5, <1>6, <1>7, <1>8, <1>9, <1>10, <1>11, <1>12, <1>13, Steps

\* An instance that nobody overlaps is alone, and what it found missing still is.
Alone(p) == /\ p \in Starting /\ p \notin overlapped => Starting = {p} /\ StillMissing(p)
            /\ pc[p].step = "failed" => p \in faulted \cup overlapped

AloneInv == \A p \in Instances : Alone(p)

LEMMA AloneStarts == ASSUME TypeOK, AloneInv, NEW p \in Instances, Starts(p) PROVE AloneInv'
<1>. USE AtIs, GoingIs
<1>1. pc' = [pc EXCEPT ![p] = Going("paths")] /\ p \notin Starting
  BY DEF Starts, Starting
<1>2. pc'[p] = Going("paths") /\ \A q \in Instances \ {p} : pc'[q] = pc[q]
  BY <1>1, Moves
<1>3. Starting' = Starting \cup {p}
  BY <1>2 DEF Starting
<1>4. Alone(p)'
  BY <1>2, <1>3 DEF Starts, Alone, StillMissing
<1>5. ASSUME NEW q \in Instances \ {p} PROVE Alone(q)'
  <2>1. q \in Starting => q \in overlapped'
    BY DEF Starts
  <2>2. pc[q].step = "failed" => q \in faulted' \cup overlapped'
    BY <1>5 DEF Starts, AloneInv, Alone
  <2>. QED
    BY <1>2, <1>3, <2>1, <2>2 DEF Alone
<1>. QED
  BY <1>4, <1>5 DEF AloneInv

\* A step of an instance that is starting.
LEMMA AloneMoves ==
    ASSUME TypeOK, AloneInv, NEW p \in Starting, overlapped' = overlapped, faulted \subseteq faulted',
           NEW to, pc' = [pc EXCEPT ![p] = to],
           p \notin overlapped /\ to.step \notin {"running", "down", "failed"} => StillMissing(p)',
           to.step = "failed" => p \in faulted' \cup overlapped
    PROVE  AloneInv'
<1>1. p \in Instances /\ Starting \subseteq Instances
  BY DEF Starting
<1>2. pc'[p] = to /\ \A q \in Instances \ {p} : pc'[q] = pc[q]
  BY <1>1, Moves
<1>3. Starting' \subseteq Starting
  BY <1>2 DEF Starting
<1>4. Alone(p)'
  <2>1. ASSUME p \in Starting', p \notin overlapped PROVE Starting' = {p} /\ StillMissing(p)'
    <3>1. Starting = {p}
      BY <1>1, <2>1 DEF AloneInv, Alone
    <3>2. to.step \notin {"running", "down", "failed"}
      BY <1>2, <2>1 DEF Starting
    <3>. QED
      BY <1>3, <2>1, <3>1, <3>2
  <2>. QED
    BY <1>2, <2>1 DEF Alone
<1>5. ASSUME NEW q \in Instances \ {p} PROVE Alone(q)'
  <2>1. q \in Starting => q \in overlapped
    BY DEF AloneInv, Alone
  <2>. QED
    BY <1>2, <1>3, <2>1 DEF AloneInv, Alone
<1>. QED
  BY <1>1, <1>4, <1>5 DEF AloneInv

LEMMA AloneStep ==
    ASSUME "--data-directory" \notin Options, TypeOK, OrderInv, AloneInv, [Next]_vars
    PROVE  AloneInv'
<1>. USE AtIs, GoingIs
<1>1. ASSUME NEW p \in Instances, pc[p].step \notin {"down", "running", "failed"},
             overlapped' = overlapped, faulted \subseteq faulted',
             NEW to, pc' = [pc EXCEPT ![p] = to],
             p \notin overlapped /\ to.step \in {"project", "create"} => StillMissing(p)',
             to.step = "failed" => p \in faulted' \cup overlapped
      PROVE  AloneInv'
  <2>1. p \in Starting
    BY <1>1 DEF Starting
  <2>2. to.step \notin {"failed", "project", "create"} => StillMissing(p)'
    BY <1>1, MovesTo DEF Hopeful
  <2>. QED
    BY <1>1, <2>1, <2>2, AloneMoves
<1>2. ASSUME NEW p \in Instances, Starts(p) PROVE AloneInv'
  BY <1>2, AloneStarts
<1>3. ASSUME NEW p \in Instances, LooksForProject(p) PROVE AloneInv'
  <2>. DEFINE to == IF "project" \in directories THEN Parsed(p) ELSE Going("project")
  <2>1. /\ pc[p].step = "paths" /\ overlapped' = overlapped /\ faulted' = faulted
        /\ directories' = directories /\ pc' = [pc EXCEPT ![p] = to]
    BY <1>3 DEF LooksForProject, Goes
  <2>2. \A x : pc' = [pc EXCEPT ![p] = x] => pc'[p] = x
    BY Moves
  <2>3. to.step \in {"project", "open", "machine"}
    BY ParsedIs
  <2>4. to.step = "project" => StillMissing(p)'
    <3>1. pc'[p] = to
      BY <2>1, <2>2
    <3>. QED
      BY <2>1, <3>1, ParsedIs DEF StillMissing
  <2>. HIDE DEF to
  <2>. QED
    BY <1>1, <2>1, <2>3, <2>4
<1>4. ASSUME NEW p \in Instances, MakesProject(p) PROVE AloneInv'
  <2>1. /\ pc[p].step = "project" /\ overlapped' = overlapped /\ faulted' = faulted
        /\ pc' = [pc EXCEPT ![p] = Parsed(p)]
    BY <1>4 DEF MakesProject, Goes
  <2>. QED
    BY <1>1, <2>1, ParsedIs
<1>5. ASSUME NEW p \in Instances, HasNoHome(p) PROVE AloneInv'
  <2>1. /\ pc[p].step = "project" /\ overlapped' = overlapped /\ faulted' = faulted \cup {p}
        /\ pc' = [pc EXCEPT ![p] = Going("failed")]
    BY <1>5 DEF HasNoHome, Goes, Faulted
  <2>2. Going("failed").step = "failed"
    OBVIOUS
  <2>. QED
    BY <1>1, <2>1, <2>2
<1>15. ASSUME NEW p \in Instances, StumblesOverConfig(p) PROVE AloneInv'
  <2>1. /\ pc[p].step \in {"open", "machine"}
        /\ overlapped' = overlapped /\ faulted' = faulted \cup {p}
        /\ \E to \in {Going("failed"), Going("down")} : pc' = [pc EXCEPT ![p] = to]
    BY <1>15, ParsedIs DEF StumblesOverConfig, Goes, Faulted
  <2>. PICK to \in {Going("failed"), Going("down")} : pc' = [pc EXCEPT ![p] = to]
    BY <2>1
  <2>2. to.step \in {"failed", "down"}
    OBVIOUS
  <2>. QED
    BY <1>1, <2>1, <2>2
<1>6. ASSUME NEW p \in Instances, FindsProjectMade(p) PROVE AloneInv'
  <2>1. /\ pc[p].step = "project" /\ overlapped' = overlapped /\ faulted' = faulted
        /\ \E to \in {Going("failed"), Going("machine"), Going("down")} : pc' = [pc EXCEPT ![p] = to]
    BY <1>6 DEF FindsProjectMade, Goes
  <2>2. p \in overlapped
    BY <1>6, <2>1 DEF FindsProjectMade, Goes, AloneInv, Alone, StillMissing, Starting
  <2>. QED
    BY <1>1, <2>1, <2>2
<1>7. ASSUME NEW p \in Instances, LooksForMachine(p) \/ MakesMachine(p) PROVE AloneInv'
  <2>1. /\ pc[p].step \in {"machine", "mkdir"} /\ overlapped' = overlapped /\ faulted' = faulted
        /\ \E to \in {Going("mkdir"), At("exists", "flash")} : pc' = [pc EXCEPT ![p] = to]
    BY <1>7 DEF LooksForMachine, MakesMachine, Goes
  <2>. PICK to \in {Going("mkdir"), At("exists", "flash")} : pc' = [pc EXCEPT ![p] = to]
    BY <2>1
  <2>2. to.step \in {"mkdir", "exists"}
    OBVIOUS
  <2>. QED
    BY <1>1, <2>1, <2>2
<1>8. ASSUME NEW p \in Instances, NEW f \in Files, LooksForFile(p, f) PROVE AloneInv'
  <2>. DEFINE to == IF content[f] # "absent" THEN After(p, f) ELSE At("create", f)
  <2>1. /\ pc[p].step = "exists" /\ overlapped' = overlapped /\ faulted' = faulted
        /\ content' = content /\ pc' = [pc EXCEPT ![p] = to]
    BY <1>8 DEF LooksForFile, Goes
  <2>2. \A x : pc' = [pc EXCEPT ![p] = x] => pc'[p] = x
    BY Moves
  <2>3. to.step \in {"exists", "open", "create"}
    BY AfterIs
  <2>4. to.step = "create" => StillMissing(p)'
    <3>1. pc'[p] = to
      BY <2>1, <2>2
    <3>. QED
      BY <2>1, <3>1, AfterIs DEF StillMissing
  <2>. HIDE DEF to
  <2>. QED
    BY <1>1, <2>1, <2>3, <2>4
<1>9. ASSUME NEW p \in Instances, NEW f \in Files, CreatesFile(p, f) PROVE AloneInv'
  <2>1. pc[p].step = "create" /\ overlapped' = overlapped /\ faulted' = faulted
    BY <1>9 DEF CreatesFile, Goes
  <2>2. CASE pc' = [pc EXCEPT ![p] = At("fill", f)]
    <3>1. At("fill", f).step = "fill"
      OBVIOUS
    <3>. QED
      BY <1>1, <2>1, <2>2, <3>1
  <2>3. CASE /\ f \in Images /\ content[f] # "absent" /\ pc[p] = At("create", f)
             /\ pc' = [pc EXCEPT ![p] = Going("failed")]
    <3>1. p \in overlapped
      BY <2>1, <2>3 DEF AloneInv, Alone, StillMissing, Starting
    <3>. QED
      BY <1>1, <2>1, <2>3, <3>1
  <2>. QED
    BY <1>9, <2>2, <2>3, CreatingFails
<1>10. ASSUME NEW p \in Instances, NEW f \in Files, FillsFile(p, f) PROVE AloneInv'
  <2>1. /\ pc[p].step = "fill" /\ overlapped' = overlapped /\ faulted' = faulted
        /\ pc' = [pc EXCEPT ![p] = After(p, f)]
    BY <1>10 DEF FillsFile, Goes
  <2>. QED
    BY <1>1, <2>1, AfterIs
<1>11. ASSUME NEW p \in Instances, OpensImages(p) PROVE AloneInv'
  <2>1. /\ pc[p].step = "open" /\ overlapped' = overlapped
        /\ faulted' = faulted \/ faulted' = faulted \cup {p}
        /\ \E to \in {Going("running"), Going("failed")} : pc' = [pc EXCEPT ![p] = to]
    BY <1>11 DEF OpensImages, Goes, Faulted
  <2>2. CASE pc' = [pc EXCEPT ![p] = Going("running")]
    <3>1. Going("running").step = "running"
      OBVIOUS
    <3>2. faulted \subseteq faulted'
      BY <2>1
    <3>. QED
      BY <1>1, <2>1, <2>2, <3>1, <3>2
  <2>3. CASE pc' = [pc EXCEPT ![p] = Going("failed")] /\ p \in faulted'
    BY <1>1, <2>1, <2>3
  <2>4. pc' # [pc EXCEPT ![p] = Going("running")] => p \in faulted'
    BY <1>11, OpeningFails
  <2>. QED
    BY <2>1, <2>2, <2>3, <2>4
<1>12. ASSUME NEW p \in Instances, CallFails(p) PROVE AloneInv'
  <2>1. /\ pc[p].step \notin {"down", "running", "failed"} /\ overlapped' = overlapped
        /\ faulted' = faulted \cup {p}
        /\ \E to \in {Going("open"), Going("failed")} : pc' = [pc EXCEPT ![p] = to]
    BY <1>12 DEF CallFails, Starting, Faulted, Fails
  <2>. QED
    BY <1>1, <2>1
<1>13. ASSUME NEW p \in Instances, Killed(p) PROVE AloneInv'
  <2>1. /\ pc' = [pc EXCEPT ![p] = Going("down")]
        /\ UNCHANGED <<directories, content, faulted, overlapped>>
    BY <1>13 DEF Killed
  <2>2. pc'[p] = Going("down") /\ \A q \in Instances \ {p} : pc'[q] = pc[q]
    BY <2>1, Moves
  <2>3. Starting' = Starting \ {p}
    BY <2>2 DEF Starting
  <2>4. ASSUME NEW q \in Instances \ {p} PROVE Alone(q)'
    BY <2>1, <2>2, <2>3 DEF AloneInv, Alone, StillMissing
  <2>5. Alone(p)'
    BY <2>2, <2>3 DEF Alone
  <2>. QED
    BY <2>4, <2>5 DEF AloneInv
<1>14. ASSUME NEW p \in Instances, NEW i \in Images, GuestWrites(p, i) PROVE AloneInv'
  BY <1>14 DEF GuestWrites, TypeOK, Files, Images, AloneInv, Alone, StillMissing, Starting
<1>16. CASE UNCHANGED vars
  BY <1>16 DEF vars, AloneInv, Alone, StillMissing, Starting
<1>. QED
  BY <1>2, <1>3, <1>4, <1>5, <1>6, <1>7, <1>8, <1>9, <1>10, <1>11, <1>12, <1>13, <1>14, <1>15, <1>16, Steps

\* Whatever earlier starts have left behind, a start without a fault and without a rival
\* succeeds, and of rivals without a fault one does, unless --data-directory is used.
THEOREM StartSucceedsCorrect ==
    ASSUME "--data-directory" \notin Options
    PROVE  Spec => []StartSucceeds
<1>1. Init => OrderInv /\ AloneInv /\ HopeInv
  BY InstancesAssumption, GoingIs DEF Init, OrderInv, Ordered, AloneInv, Alone, Starting, HopeInv,
     Hopeful, StillMissing, Going, At
<1>2. TypeOK /\ OrderInv /\ [Next]_vars => OrderInv'
  BY OrderStep
<1>3. TypeOK /\ OrderInv /\ AloneInv /\ [Next]_vars => AloneInv'
  BY AloneStep
<1>4. TypeOK /\ OrderInv /\ HopeInv /\ [Next]_vars => HopeInv'
  BY HopeStep
<1>5. AloneInv /\ HopeInv => StartSucceeds
  BY DEF AloneInv, Alone, HopeInv, Hopeful, StartSucceeds
<1>. QED
  BY <1>1, <1>2, <1>3, <1>4, <1>5, TypeCorrect, PTL DEF Spec

=============================================================================
