------------------------ MODULE SourceShippingProofs ------------------------
(***************************************************************************)
(* For every project, every limit and any number of nodes and edits: what  *)
(* is uploaded is fit to be, and every runner starts on exactly that.      *)
(***************************************************************************)
EXTENDS SourceShipping, DataLemmas

Early == {"none", "booting", "verifying"}
Phases == Early \cup {"scanning", "running", "mismatch", "limits", "failed"}

(* The part of the type invariant that TypeOK leaves to the shape of the   *)
(* definitions: contents are functions.                                    *)
Shapes ==
    /\ tree \in [Files -> {Link, Absent} \cup 0..MaxSize]
    /\ files = [f \in DOMAIN files |-> files[f]]
    /\ job \in [Nodes -> Phases]
    /\ payload = [n \in Nodes |-> payload[n]]
    /\ scanned = [n \in Nodes |-> scanned[n]]
    /\ root = [n \in Nodes |-> root[n]]

(* What the command knows at each point: no file it must not ship is in    *)
(* the package, or about to be; the later steps have passed the checks.    *)
PackageInv ==
    /\ step \in {"stat", "read"} =>
          todo # {} /\ Min(todo) \notin Secret /\ tree[Min(todo)] # Link
    /\ DOMAIN files \cap (Ignored \cup Secret) = {}
    /\ step \in {"bucket", "verify", "upload", "staged"} => Required \subseteq DOMAIN files
    /\ step \in {"upload", "staged"} => bucket = "private"

(* What each node knows: a verified payload is what was packaged, and what *)
(* is extracted agrees with it.                                            *)
NodeInv ==
    \A n \in Nodes :
        /\ job[n] # "none" => step = "staged"
        /\ job[n] \in Early => root[n] = Nothing /\ scanned[n] = {}
        /\ job[n] \in {"scanning", "running"} => payload[n] = files
        /\ root[n] = [f \in DOMAIN root[n] |-> payload[n][f]]
        /\ job[n] = "running" => DOMAIN root[n] = DOMAIN payload[n]

Inv == TypeOK /\ Shapes /\ PackageInv /\ NodeInv

-----------------------------------------------------------------------------
(* The next file of a list is one of the list.                            *)
LEMMA FirstIsMember ==
    ASSUME NEW S \in SUBSET Nat, S # {}
    PROVE  Min(S) \in S
  BY NatHasLeast DEF Min

-----------------------------------------------------------------------------
(* The invariant holds first; the command and the nodes preserve it.       *)
LEMMA InvStart ==
    ASSUME Init
    PROVE  Inv
  <1>1. tree \in [Files -> {Link, Absent} \cup 0..MaxSize]
    BY ShippingAssumption DEF Init
  <1>2. DOMAIN files = {} /\ files = [f \in DOMAIN files |-> files[f]]
    BY DEF Init, Nothing
  <1>3. \A n \in Nodes :
            /\ job[n] = "none" /\ scanned[n] = {}
            /\ root[n] = Nothing /\ payload[n] = Nothing
            /\ DOMAIN root[n] = {} /\ DOMAIN payload[n] = {}
    BY DEF Init, Nothing
  <1>4. TypeOK
    BY <1>1, <1>2, <1>3, ShippingAssumption DEF Init, TypeOK
  <1>5. Shapes
    BY <1>1, <1>2 DEF Init, Shapes, Phases, Early
  <1>6. PackageInv
    BY <1>2 DEF Init, PackageInv
  <1>7. NodeInv
    BY <1>3 DEF NodeInv, Nothing
  <1> QED
    BY <1>4, <1>5, <1>6, <1>7 DEF Inv

(* Once a node exists the command is over.                                 *)
LEMMA NodesComeLast ==
    ASSUME Inv, Command
    PROVE  /\ \A n \in Nodes : job[n] = "none"
           /\ UNCHANGED <<tree, edits, nodeVars>>
  <1>1. step # "staged" /\ UNCHANGED <<tree, edits, nodeVars>>
    BY DEF Command, ListProject, SkipFile, RefuseFile, TakeFile, StatFile, ReadFile,
           FileVanished, Archive, RefusePackage, CreateBucket, VerifyBucket, HubFails,
           Upload, Refuse
  <1> QED
    BY <1>1 DEF Inv, NodeInv

(* The list, the totals and the package along the command's steps.         *)
LEMMA PackageStep ==
    ASSUME Inv, Command
    PROVE  /\ todo' \subseteq Files \ Ignored
           /\ total' \in Nat /\ size' \in 0..MaxSize
           /\ DOMAIN files' \subseteq Files /\ DOMAIN files \subseteq DOMAIN files'
           /\ files' = [f \in DOMAIN files' |-> files'[f]]
           /\ PackageInv'
  <1> USE DEF Inv
  <1>1. /\ todo \subseteq Files \ Ignored /\ total \in Nat /\ size \in 0..MaxSize
        /\ DOMAIN files \subseteq Files
    BY DEF TypeOK
  <1>2. files = [f \in DOMAIN files |-> files[f]]
    BY DEF Shapes
  <1>3. step \in {"check", "stat", "read"} /\ todo # {} => Min(todo) \in todo
    BY <1>1, ShippingAssumption, FirstIsMember
  <1>4. CASE ListProject
    BY <1>1, <1>2, <1>4, ShippingAssumption DEF ListProject, PackageInv, Present
  <1>5. CASE SkipFile
    BY <1>1, <1>2, <1>5 DEF SkipFile, PackageInv
  <1>6. CASE RefuseFile \/ FileVanished \/ RefusePackage \/ HubFails
    BY <1>1, <1>2, <1>6
       DEF RefuseFile, FileVanished, RefusePackage, HubFails, Refuse, PackageInv
  <1>7. CASE TakeFile
    BY <1>1, <1>2, <1>7 DEF TakeFile, PackageInv, Link
  <1>8. CASE StatFile
    <2>1. todo # {} /\ Min(todo) \in Files
      BY <1>1, <1>3, <1>8 DEF StatFile, PackageInv
    <2>2. size' \in 0..MaxSize
      BY <1>8, <2>1 DEF StatFile, Shapes, PackageInv
    <2>3. total' \in Nat
      BY <1>1, <1>8, <2>2, ShippingAssumption DEF StatFile
    <2>4. UNCHANGED <<todo, files, bucket, tree>> /\ step' \in {"read", "refused"}
      BY <1>8 DEF StatFile
    <2> QED
      BY <1>1, <1>2, <1>8, <2>2, <2>3, <2>4 DEF StatFile, PackageInv
  <1>9. CASE ReadFile
    <2>1. Min(todo) \in Files \ Ignored /\ Min(todo) \notin Secret
      BY <1>1, <1>3, <1>9 DEF ReadFile, PackageInv
    <2>2. /\ DOMAIN files' = DOMAIN files \cup {Min(todo)}
          /\ files' = [f \in DOMAIN files' |-> files'[f]]
      <3>1. files' = With(files, Min(todo), tree[Min(todo)])
        BY <1>9 DEF ReadFile
      <3> QED
        BY <3>1 DEF With
    <2> QED
      BY <1>1, <1>9, <2>1, <2>2 DEF ReadFile, PackageInv
  <1>10. CASE Archive
    BY <1>1, <1>2, <1>10 DEF Archive, HasInputs, PackageInv
  <1>11. CASE CreateBucket \/ VerifyBucket \/ Upload
    BY <1>1, <1>2, <1>11 DEF CreateBucket, VerifyBucket, Upload, PackageInv
  <1> QED
    BY <1>4, <1>5, <1>6, <1>7, <1>8, <1>9, <1>10, <1>11 DEF Command

(* Only the owner changes the tree, and never into a link.                 *)
LEMMA EditStep ==
    ASSUME Inv, Edit
    PROVE  Inv'
  <1>1. PICK f \in Files, s \in 0..MaxSize \cup {Absent} :
            /\ tree[f] # Link
            /\ tree' = [tree EXCEPT ![f] = s]
    BY DEF Edit
  <1>2. UNCHANGED <<command, nodeVars>>
    BY DEF Edit
  <1>3. s # Link
    BY ShippingAssumption DEF Link, Absent
  <1>4. tree' \in [Files -> {Link, Absent} \cup 0..MaxSize]
    BY <1>1 DEF Inv, Shapes
  <1>5. \A g \in Files : tree'[g] = Link => tree[g] = Link
    BY <1>1, <1>3 DEF Inv, Shapes
  <1>6. step \in {"stat", "read"} => Min(todo) \in Files
    BY ShippingAssumption, FirstIsMember DEF Inv, TypeOK, PackageInv
  <1>7. TypeOK'
    BY <1>2, <1>4 DEF command, nodeVars, Inv, TypeOK
  <1>8. Shapes'
    BY <1>2, <1>4 DEF command, nodeVars, Inv, Shapes
  <1>9. PackageInv'
    BY <1>2, <1>5, <1>6 DEF command, Inv, PackageInv
  <1>10. NodeInv'
    BY <1>2 DEF command, nodeVars, Inv, NodeInv
  <1> QED
    BY <1>7, <1>8, <1>9, <1>10 DEF Inv

LEMMA CommandStep ==
    ASSUME Inv, Command
    PROVE  Inv'
  <1>1. UNCHANGED <<tree, edits, job, payload, scanned, root>>
    BY NodesComeLast DEF nodeVars
  <1>2. \A n \in Nodes : job[n] = "none"
    BY NodesComeLast
  <1>3. TypeOK'
    BY <1>1, PackageStep DEF Inv, TypeOK
  <1>4. Shapes'
    BY <1>1, PackageStep DEF Inv, Shapes
  <1>5. NodeInv'
    BY <1>1, <1>2 DEF Inv, NodeInv
  <1> QED
    BY <1>3, <1>4, <1>5, PackageStep DEF Inv

-----------------------------------------------------------------------------
(* A step of one node: what it has to keep for itself, all others keep.    *)
LEMMA NodeKeeps ==
    ASSUME Inv, NEW n \in Nodes, UNCHANGED <<tree, edits, command>>,
           \A v \in Nodes \ {n} : /\ job'[v] = job[v] /\ payload'[v] = payload[v]
                                  /\ scanned'[v] = scanned[v] /\ root'[v] = root[v],
           job' \in [Nodes -> Phases],
           payload' = [v \in Nodes |-> payload'[v]],
           scanned' = [v \in Nodes |-> scanned'[v]],
           root' = [v \in Nodes |-> root'[v]],
           step = "staged",
           /\ DOMAIN root'[n] \subseteq scanned'[n]
           /\ scanned'[n] \subseteq DOMAIN payload'[n]
           /\ DOMAIN payload'[n] \subseteq DOMAIN files,
           job'[n] \in Early => root'[n] = Nothing /\ scanned'[n] = {},
           job'[n] \in {"scanning", "running"} => payload'[n] = files,
           root'[n] = [f \in DOMAIN root'[n] |-> payload'[n][f]],
           job'[n] = "running" => DOMAIN root'[n] = DOMAIN payload'[n]
    PROVE  Inv'
  <1>1. UNCHANGED <<step, todo, size, total, files, bucket>>
    BY DEF command
  <1>2. TypeOK'
    BY <1>1 DEF Inv, TypeOK
  <1>3. Shapes'
    BY <1>1 DEF Inv, Shapes
  <1>4. PackageInv'
    BY <1>1 DEF Inv, PackageInv
  <1>5. NodeInv'
    <2> SUFFICES ASSUME NEW v \in Nodes
                 PROVE  /\ job'[v] # "none" => step' = "staged"
                        /\ job'[v] \in Early => root'[v] = Nothing /\ scanned'[v] = {}
                        /\ job'[v] \in {"scanning", "running"} => payload'[v] = files'
                        /\ root'[v] = [f \in DOMAIN root'[v] |-> payload'[v][f]]
                        /\ job'[v] = "running" => DOMAIN root'[v] = DOMAIN payload'[v]
      BY DEF NodeInv
    <2>1. CASE v = n
      BY <1>1, <2>1
    <2>2. CASE v # n
      <3>1. /\ job'[v] = job[v] /\ payload'[v] = payload[v]
            /\ scanned'[v] = scanned[v] /\ root'[v] = root[v]
        BY <2>2
      <3> QED
        BY <1>1, <3>1 DEF Inv, NodeInv
    <2> QED
      BY <2>1, <2>2
  <1> QED
    BY <1>2, <1>3, <1>4, <1>5 DEF Inv

LEMMA NodeStep ==
    ASSUME Inv, NEW n \in Nodes, Launch(n) \/ Node(n)
    PROVE  Inv'
  <1> USE DEF Inv
  <1>1. /\ job \in [Nodes -> Phases]
        /\ payload = [v \in Nodes |-> payload[v]]
        /\ scanned = [v \in Nodes |-> scanned[v]]
        /\ root = [v \in Nodes |-> root[v]]
        /\ files = [f \in DOMAIN files |-> files[f]]
    BY DEF Shapes
  <1>2. /\ DOMAIN root[n] \subseteq scanned[n]
        /\ scanned[n] \subseteq DOMAIN payload[n]
        /\ DOMAIN payload[n] \subseteq DOMAIN files /\ DOMAIN files \subseteq Nat
    BY ShippingAssumption DEF TypeOK
  <1>3. /\ job[n] # "none" => step = "staged"
        /\ job[n] \in Early => root[n] = Nothing /\ scanned[n] = {}
        /\ job[n] \in {"scanning", "running"} => payload[n] = files
        /\ root[n] = [f \in DOMAIN root[n] |-> payload[n][f]]
    BY DEF NodeInv
  <1>4. UNCHANGED <<tree, edits, command>> /\ step = "staged"
    BY <1>3 DEF Node, Launch, ReadPayload, VerifyPayload, ScanMember, ExtractMember, StartRunner
  <1>5. CASE Launch(n)
    <2>1. /\ job' = [job EXCEPT ![n] = "booting"] /\ job[n] = "none"
          /\ UNCHANGED <<payload, scanned, root>>
      BY <1>5 DEF Launch
    <2>2. job' \in [Nodes -> Phases] /\ job'[n] = "booting"
      BY <1>1, <2>1 DEF Phases, Early
    <2> QED
      BY <1>1, <1>2, <1>3, <1>4, <2>1, <2>2, NodeKeeps DEF Early
  <1>6. CASE ReadPayload(n)
    <2>1. PICK read \in {files} \cup Damaged : payload' = [payload EXCEPT ![n] = read]
      BY <1>6 DEF ReadPayload
    <2>2. /\ job[n] = "booting" /\ job' = [job EXCEPT ![n] = "verifying"]
          /\ UNCHANGED <<scanned, root>>
      BY <1>6 DEF ReadPayload
    <2>3. DOMAIN read \subseteq DOMAIN files
      BY <2>1 DEF Damaged
    <2>4. /\ job' \in [Nodes -> Phases] /\ job'[n] = "verifying"
          /\ payload' = [v \in Nodes |-> payload'[v]] /\ payload'[n] = read
      BY <1>1, <2>1, <2>2 DEF Phases, Early
    <2>5. root[n] = Nothing /\ scanned[n] = {} /\ DOMAIN root[n] = {}
      BY <1>3, <2>2 DEF Early, Nothing
    <2>6. root'[n] = [f \in DOMAIN root'[n] |-> payload'[n][f]]
      BY <2>2, <2>5 DEF Nothing
    <2> QED
      BY <1>1, <1>4, <2>1, <2>2, <2>3, <2>4, <2>5, <2>6, NodeKeeps
  <1>7. CASE VerifyPayload(n)
    <2>1. /\ job[n] = "verifying" /\ UNCHANGED <<payload, scanned, root>>
          /\ job' = [job EXCEPT ![n] = job'[n]]
          /\ job'[n] \in {"limits", "mismatch", "scanning"}
          /\ job'[n] = "scanning" => payload[n] = files
      BY <1>1, <1>7 DEF VerifyPayload
    <2>2. job' \in [Nodes -> Phases]
      BY <1>1, <2>1 DEF Phases
    <2> QED
      BY <1>1, <1>2, <1>3, <1>4, <2>1, <2>2, NodeKeeps DEF Early
  <1>8. CASE ScanMember(n)
    <2> DEFINE seen == scanned[n] \cup {Min(Members(n))}
    <2>1. /\ job[n] = "scanning" /\ Members(n) # {}
          /\ UNCHANGED <<payload, root>>
          /\ scanned' = [scanned EXCEPT ![n] = seen]
          /\ job' = job \/ job' = [job EXCEPT ![n] = "limits"]
      BY <1>8 DEF ScanMember
    <2>2. Min(Members(n)) \in DOMAIN payload[n]
      BY <1>2, <2>1, FirstIsMember DEF Members
    <2>3. job' \in [Nodes -> Phases] /\ job'[n] \in {"scanning", "limits"}
      BY <1>1, <2>1 DEF Phases
    <2>4. scanned' = [v \in Nodes |-> scanned'[v]] /\ scanned'[n] = seen
      BY <1>1, <2>1
    <2>5. \A v \in Nodes \ {n} : job'[v] = job[v] /\ scanned'[v] = scanned[v]
      BY <1>1, <2>1
    <2> QED
      BY <1>1, <1>2, <1>3, <1>4, <2>1, <2>2, <2>3, <2>4, <2>5, NodeKeeps DEF Early
  <1>9. CASE ExtractMember(n)
    <2> DEFINE left == DOMAIN payload[n] \ DOMAIN root[n]
    <2>1. /\ job[n] = "scanning" /\ Members(n) = {} /\ left # {}
          /\ UNCHANGED <<payload, scanned>>
      BY <1>9 DEF ExtractMember
    <2>2. Min(left) \in left /\ scanned[n] = DOMAIN payload[n]
      BY <1>2, <2>1, FirstIsMember DEF Members
    <2>3. CASE UNCHANGED job /\ root' = [root EXCEPT ![n] =
                                  With(root[n], Min(left), payload[n][Min(left)])]
      <3>1. /\ root' = [v \in Nodes |-> root'[v]]
            /\ root'[n] = With(root[n], Min(left), payload[n][Min(left)])
            /\ \A v \in Nodes \ {n} : root'[v] = root[v]
        BY <1>1, <2>3
      <3>2. /\ DOMAIN root'[n] = DOMAIN root[n] \cup {Min(left)}
            /\ root'[n] = [f \in DOMAIN root'[n] |-> payload[n][f]]
        <4>1. \A g \in DOMAIN root[n] : root[n][g] = payload[n][g]
          BY <1>3
        <4> QED
          BY <3>1, <4>1 DEF With
      <3>3. job' = job /\ payload' = payload /\ scanned' = scanned
        BY <2>1, <2>3
      <3>4. /\ DOMAIN root'[n] \subseteq scanned'[n]
            /\ scanned'[n] \subseteq DOMAIN payload'[n]
            /\ DOMAIN payload'[n] \subseteq DOMAIN files
        BY <1>2, <2>2, <3>2, <3>3
      <3>5. root'[n] = [f \in DOMAIN root'[n] |-> payload'[n][f]]
        BY <3>2, <3>3
      <3>6. /\ job' \in [Nodes -> Phases] /\ step = "staged"
            /\ \A v \in Nodes \ {n} : job'[v] = job[v] /\ payload'[v] = payload[v]
                                     /\ scanned'[v] = scanned[v] /\ root'[v] = root[v]
        BY <1>1, <1>4, <2>1, <3>1, <3>3
      <3>7. /\ job'[n] = "scanning" /\ payload'[n] = files
            /\ job'[n] \notin Early /\ job'[n] # "running"
        BY <1>3, <2>1, <3>3 DEF Early
      <3>8. /\ payload' = [v \in Nodes |-> payload'[v]]
            /\ scanned' = [v \in Nodes |-> scanned'[v]]
            /\ root' = [v \in Nodes |-> root'[v]]
        BY <1>1, <3>1, <3>3
      <3> QED
        BY <1>4, <3>4, <3>5, <3>6, <3>7, <3>8, NodeKeeps
    <2>4. CASE UNCHANGED root /\ job' = [job EXCEPT ![n] = "failed"]
      <3>1. job' \in [Nodes -> Phases] /\ job'[n] = "failed"
        BY <1>1, <2>4 DEF Phases
      <3> QED
        BY <1>1, <1>2, <1>3, <1>4, <2>1, <2>4, <3>1, NodeKeeps DEF Early
    <2> QED
      BY <1>9, <2>3, <2>4 DEF ExtractMember
  <1>10. CASE StartRunner(n)
    <2>1. PICK end \in {"running", "failed"} : job' = [job EXCEPT ![n] = end]
      BY <1>10 DEF StartRunner
    <2>2. /\ job[n] = "scanning" /\ DOMAIN root[n] = DOMAIN payload[n]
          /\ UNCHANGED <<payload, scanned, root>>
      BY <1>10 DEF StartRunner
    <2>3. job' \in [Nodes -> Phases] /\ job'[n] \in {"running", "failed"}
      BY <1>1, <2>1 DEF Phases
    <2> QED
      BY <1>1, <1>2, <1>3, <1>4, <2>1, <2>2, <2>3, NodeKeeps DEF Early
  <1> QED
    BY <1>5, <1>6, <1>7, <1>8, <1>9, <1>10 DEF Node

-----------------------------------------------------------------------------
(* What a tree that nobody edits makes of the package, and how the budget  *)
(* of the packager bounds what a node counts.                              *)

Packed == {"bucket", "verify", "upload", "staged"}

(* While nobody has edited, what is in the package and what is still to be *)
(* read are together the files to be shipped.                              *)
QuietInv ==
    /\ edits \in Nat
    /\ step = "list" => DOMAIN files = {}
    /\ step \in Packed => todo = {}
    /\ edits = 0 /\ step \notin {"list", "refused"} =>
          /\ DOMAIN files \cup ((todo \cap Present) \ Secret) = Present \ (Ignored \cup Secret)
          /\ \A f \in DOMAIN files : files[f] = tree[f]

(* Until it refuses, the command is within its limits, and stays there     *)
(* with the file it is about to read.                                      *)
BudgetInv ==
    /\ step # "refused" => total <= MaxBytes /\ Cardinality(DOMAIN files) <= MaxFiles
    /\ step = "read" => Cardinality(DOMAIN files) + 1 <= MaxFiles
    /\ zipped \in Nat /\ (step \in Packed => zipped <= MaxArchive)
    /\ RefusedOnlyIfGrown

(* A part of the files has at most the bytes of the whole.                 *)
LEMMA PartIsSmaller ==
    ASSUME NEW whole, IsFiniteSet(DOMAIN whole),
           NEW part, DOMAIN part \subseteq DOMAIN whole,
           \A f \in DOMAIN part : part[f] = whole[f]
    PROVE  /\ Bytes(part) \in Nat /\ Bytes(whole) \in Nat
           /\ Bytes(part) <= Bytes(whole)
  <1> DEFINE InPart == {b \in (DOMAIN part) \X (1..MaxSize) : b[2] <= part[b[1]]}
             InWhole == {b \in (DOMAIN whole) \X (1..MaxSize) : b[2] <= whole[b[1]]}
  <1>1. IsFiniteSet((DOMAIN whole) \X (1..MaxSize))
    <2> DEFINE Sizes == 1..MaxSize
               Names == DOMAIN whole
    <2>1. IsFiniteSet(Sizes)
      BY ShippingAssumption, FS_Interval
    <2>2. IsFiniteSet(Names)
      OBVIOUS
    <2> HIDE DEF Sizes, Names
    <2>3. IsFiniteSet(Names \X Sizes)
      BY <2>1, <2>2, FS_Product
    <2> QED
      BY <2>3 DEF Sizes, Names
  <1>2. InPart \subseteq InWhole
    OBVIOUS
  <1>3. IsFiniteSet(InWhole)
    BY <1>1, FS_Subset
  <1>4. IsFiniteSet(InPart) /\ Cardinality(InPart) <= Cardinality(InWhole)
    BY <1>2, <1>3, FS_Subset
  <1> HIDE DEF InPart, InWhole
  <1>5. Cardinality(InPart) \in Nat /\ Cardinality(InWhole) \in Nat
    BY <1>3, <1>4, FS_CardinalityType
  <1> QED
    BY <1>4, <1>5 DEF InPart, InWhole, Bytes

(* The two further parts, step by step.                                    *)
LEMMA QuietStart ==
    ASSUME Init
    PROVE  QuietInv /\ BudgetInv
  <1>1. DOMAIN files = {} /\ edits = 0 /\ step = "list" /\ total = 0
    BY DEF Init, Nothing
  <1>2. \A n \in Nodes : job[n] = "none"
    BY DEF Init
  <1>3. Cardinality(DOMAIN files) = 0
    BY <1>1, FS_EmptySet
  <1>4. QuietInv
    BY <1>1 DEF QuietInv, Packed
  <1>5. RefusedOnlyIfGrown
    BY <1>2 DEF RefusedOnlyIfGrown
  <1>6. zipped = 0
    BY DEF Init
  <1>7. BudgetInv
    BY <1>1, <1>3, <1>5, <1>6, ShippingAssumption DEF BudgetInv, Packed
  <1> QED
    BY <1>4, <1>7

(* An edit ends the quiet; it touches neither the package nor the totals.  *)
LEMMA EditKeeps ==
    ASSUME QuietInv, BudgetInv, Edit
    PROVE  QuietInv' /\ BudgetInv'
  <1>1. edits' = edits + 1 /\ step \in {"check", "stat", "read"}
    BY DEF Edit
  <1>2. UNCHANGED <<step, todo, total, files, zipped, job>>
    BY DEF Edit, command, nodeVars
  <1>3. edits' \in Nat /\ edits' # 0
    BY <1>1 DEF QuietInv
  <1>4. QuietInv'
    BY <1>1, <1>2, <1>3 DEF QuietInv, Packed
  <1>5. BudgetInv'
    BY <1>2 DEF BudgetInv, RefusedOnlyIfGrown, Bytes
  <1> QED
    BY <1>4, <1>5

LEMMA QuietStep ==
    ASSUME Inv, QuietInv, Command
    PROVE  QuietInv'
  <1>1. UNCHANGED <<tree, edits>> /\ edits \in Nat
    BY NodesComeLast DEF QuietInv
  <1>2. Present' = Present
    BY <1>1 DEF Present
  <1>3. todo \subseteq Files \ Ignored /\ DOMAIN files \subseteq Files
    BY DEF Inv, TypeOK
  <1>4. todo # {} => Min(todo) \in todo
    BY <1>3, ShippingAssumption, FirstIsMember
  <1> USE DEF QuietInv, Packed
  <1>5. CASE ListProject
    BY <1>1, <1>2, <1>5 DEF ListProject, Present
  <1>6. CASE SkipFile
    <2>1. (todo' \cap Present) \ Secret = (todo \cap Present) \ Secret
      BY <1>4, <1>6 DEF SkipFile, Present
    <2> QED
      BY <1>1, <1>2, <1>6, <2>1 DEF SkipFile
  <1>7. CASE RefuseFile \/ FileVanished \/ RefusePackage \/ HubFails
    BY <1>1, <1>7 DEF RefuseFile, FileVanished, RefusePackage, HubFails, Refuse
  <1>8. CASE TakeFile \/ StatFile
    BY <1>1, <1>2, <1>8 DEF TakeFile, StatFile
  <1>9. CASE ReadFile
    <2> DEFINE f == Min(todo)
    <2>1. /\ step = "read" /\ step' = "check"
          /\ todo' = todo \ {f} /\ tree[f] # Absent
          /\ files' = With(files, f, tree[f])
      BY <1>9 DEF ReadFile
    <2>2. f \in todo /\ f \notin Secret
      BY <1>4, <2>1 DEF Inv, PackageInv
    <2>3. f \in Present
      BY <1>3, <2>1, <2>2 DEF Present
    <2> HIDE DEF f
    <2>4. /\ DOMAIN files' = DOMAIN files \cup {f}
          /\ files'[f] = tree[f]
          /\ \A g \in DOMAIN files : g # f => files'[g] = files[g]
      BY <2>1 DEF With
    <2>5. DOMAIN files' \cup ((todo' \cap Present) \ Secret)
              = DOMAIN files \cup ((todo \cap Present) \ Secret)
      BY <2>1, <2>2, <2>3, <2>4
    <2>6. edits = 0 => \A g \in DOMAIN files' : files'[g] = tree[g]
      BY <2>1, <2>4
    <2> QED
      BY <1>1, <1>2, <2>1, <2>5, <2>6
  <1>10. CASE Archive
    BY <1>1, <1>2, <1>10 DEF Archive
  <1>11. CASE CreateBucket \/ VerifyBucket \/ Upload
    BY <1>1, <1>2, <1>11 DEF CreateBucket, VerifyBucket, Upload
  <1> QED
    BY <1>5, <1>6, <1>7, <1>8, <1>9, <1>10, <1>11 DEF Command

LEMMA BudgetStep ==
    ASSUME Inv, BudgetInv, Command
    PROVE  BudgetInv'
  <1>1. RefusedOnlyIfGrown'
    <2>1. \A n \in Nodes : job'[n] = "none"
      BY NodesComeLast DEF nodeVars
    <2> QED
      BY <2>1 DEF RefusedOnlyIfGrown
  <1>2. IsFiniteSet(DOMAIN files) /\ Cardinality(DOMAIN files) \in Nat
    BY ShippingAssumption, FS_Subset, FS_CardinalityType DEF Inv, TypeOK
  <1> USE DEF BudgetInv, Packed
  <1>3. CASE ReadFile
    <2>1. /\ step = "read" /\ step' = "check" /\ UNCHANGED <<total, zipped>>
          /\ files' = With(files, Min(todo), tree[Min(todo)])
      BY <1>3 DEF ReadFile
    <2>2. DOMAIN files' = DOMAIN files \cup {Min(todo)}
      BY <2>1 DEF With
    <2>3. /\ Cardinality(DOMAIN files') <= Cardinality(DOMAIN files) + 1
          /\ Cardinality(DOMAIN files') \in Nat
      <3> DEFINE Old == DOMAIN files
                 New == DOMAIN files'
                 f == Min(todo)
      <3>1. IsFiniteSet(Old) /\ Cardinality(Old) \in Nat /\ New = Old \cup {f}
        BY <1>2, <2>2
      <3> HIDE DEF Old, New, f
      <3>2. IsFiniteSet(New) /\ (Cardinality(New) = Cardinality(Old) \/ Cardinality(New) = Cardinality(Old) + 1)
        BY <3>1, FS_AddElement
      <3>3. Cardinality(New) <= Cardinality(Old) + 1 /\ Cardinality(New) \in Nat
        BY <3>1, <3>2
      <3> QED
        BY <3>3 DEF Old, New
    <2>4. Cardinality(DOMAIN files') \in Nat
      BY <2>3
    <2> QED
      BY <1>1, <1>2, <2>1, <2>3, <2>4, ShippingAssumption
  <1>4. CASE StatFile
    BY <1>1, <1>2, <1>4 DEF StatFile, WithinBudget
  <1>5. CASE Archive
    BY <1>1, <1>5, ShippingAssumption DEF Archive
  <1>6. CASE ListProject \/ SkipFile \/ RefuseFile \/ TakeFile \/ FileVanished \/ RefusePackage
    BY <1>1, <1>6 DEF ListProject, SkipFile, RefuseFile, TakeFile, FileVanished, RefusePackage, Refuse
  <1>7. CASE CreateBucket \/ VerifyBucket \/ HubFails \/ Upload
    BY <1>1, <1>7 DEF CreateBucket, VerifyBucket, HubFails, Upload, Refuse
  <1> QED
    BY <1>3, <1>4, <1>5, <1>6, <1>7 DEF Command

(* A node that counts past a limit counts more than the command did.       *)
LEMMA NodeBudgetStep ==
    ASSUME Inv, BudgetInv, NEW n \in Nodes, Launch(n) \/ Node(n)
    PROVE  BudgetInv'
  <1>1. UNCHANGED <<tree, edits, command>> /\ step = "staged"
    BY DEF Inv, NodeInv, Node, Launch, ReadPayload, VerifyPayload, ScanMember, ExtractMember, StartRunner
  <1>2. UNCHANGED <<step, total, files, zipped>>
    BY <1>1 DEF command
  <1>3. /\ total <= MaxBytes /\ Cardinality(DOMAIN files) <= MaxFiles
        /\ zipped \in Nat /\ zipped <= MaxArchive
    BY <1>1 DEF BudgetInv, Packed
  <1>4. IsFiniteSet(DOMAIN files) /\ total \in Nat
    BY ShippingAssumption, FS_Subset DEF Inv, TypeOK
  <1>5. job \in [Nodes -> Phases] /\ RefusedOnlyIfGrown
    BY DEF Inv, Shapes, BudgetInv
  <1>6. RefusedOnlyIfGrown'
    <2>1. \A v \in Nodes \ {n} : job'[v] = job[v]
      BY <1>5 DEF Node, Launch, ReadPayload, VerifyPayload, ScanMember, ExtractMember, StartRunner
    <2>2. CASE job'[n] = "limits" => Bytes(files) > total
      BY <1>2, <1>5, <2>1, <2>2 DEF RefusedOnlyIfGrown, Bytes
    <2>3. CASE Launch(n) \/ ReadPayload(n) \/ VerifyPayload(n) \/ ExtractMember(n) \/ StartRunner(n)
      <3>1. ~(zipped > MaxArchive)
        BY <1>3, ShippingAssumption
      <3>2. job'[n] = "limits" => job[n] = "limits"
        BY <1>5, <2>3, <3>1 DEF Launch, ReadPayload, VerifyPayload, ExtractMember, StartRunner
      <3> QED
        BY <1>5, <2>2, <3>2 DEF RefusedOnlyIfGrown
    <2>4. CASE ScanMember(n)
      <3> DEFINE seen == scanned[n] \cup {Min(Members(n))}
                 part == [f \in seen |-> payload[n][f]]
      <3>1. /\ job[n] = "scanning" /\ Members(n) # {}
            /\ ~WithinBudget(Bytes(part), Cardinality(seen)) \/ UNCHANGED job
        BY <2>4 DEF ScanMember
      <3>2. payload[n] = files /\ scanned[n] \subseteq DOMAIN files /\ Members(n) \subseteq DOMAIN files
        BY <3>1 DEF Inv, NodeInv, TypeOK, Members
      <3>3. seen \subseteq DOMAIN files
        <4>1. Members(n) \in SUBSET Nat
          BY <3>2, ShippingAssumption DEF Inv, TypeOK
        <4> QED
          BY <3>1, <3>2, <4>1, FirstIsMember
      <3> HIDE DEF seen
      <3>4. /\ Bytes(part) \in Nat /\ Bytes(files) \in Nat
            /\ Bytes(part) <= Bytes(files)
        <4>1. DOMAIN part = seen /\ \A f \in seen : part[f] = files[f]
          BY <3>2
        <4> HIDE DEF part
        <4> QED
          BY <1>4, <3>3, <4>1, PartIsSmaller
      <3>5. Cardinality(seen) <= Cardinality(DOMAIN files)
            /\ Cardinality(seen) \in Nat /\ Cardinality(DOMAIN files) \in Nat
        BY <1>4, <3>3, FS_Subset, FS_CardinalityType
      <3> HIDE DEF part
      <3>6. CASE Bytes(files) <= total
        <4>1. WithinBudget(Bytes(part), Cardinality(seen))
          BY <1>3, <1>4, <3>4, <3>5, <3>6, ShippingAssumption DEF WithinBudget
        <4> QED
          BY <2>2, <3>1, <4>1
      <3>7. CASE ~(Bytes(files) <= total)
        BY <1>4, <2>2, <3>4, <3>7
      <3> QED
        BY <3>6, <3>7
    <2> QED
      BY <2>3, <2>4 DEF Node
  <1> QED
    BY <1>1, <1>2, <1>6 DEF BudgetInv, Packed

LEMMA NodeQuietStep ==
    ASSUME Inv, QuietInv, NEW n \in Nodes, Launch(n) \/ Node(n)
    PROVE  QuietInv'
  <1>1. UNCHANGED <<tree, edits, command>>
    BY DEF Node, Launch, ReadPayload, VerifyPayload, ScanMember, ExtractMember, StartRunner
  <1> QED
    BY <1>1 DEF command, QuietInv, Present

-----------------------------------------------------------------------------
(* The inductive invariant of SourceShipping holds in every reachable      *)
(* state: what the command has checked at each point, and how far each     *)
(* node's payload and tree can be from the package.                        *)
THEOREM ShippingInvariance == Spec => []Inv
  <1>1. Init => Inv
    BY InvStart
  <1>2. Inv /\ [Next]_vars => Inv'
    <2> SUFFICES ASSUME Inv, [Next]_vars PROVE Inv'
      OBVIOUS
    <2>1. CASE UNCHANGED vars
      BY <2>1 DEF vars, command, nodeVars, Inv, TypeOK, Shapes, PackageInv, NodeInv
    <2> QED
      BY <2>1, EditStep, CommandStep, NodeStep DEF Next
  <1> QED
    BY <1>1, <1>2, PTL DEF Spec

(* The shape of the state; among it, that no member is written before it   *)
(* was counted.                                                            *)
THEOREM ShippingTypeCorrect == Spec => []TypeOK
  <1>1. Inv => TypeOK
    BY DEF Inv
  <1> QED
    BY <1>1, ShippingInvariance, PTL

(* Uploaded source is complete, holds nothing ignored or secret, and is in *)
(* a private bucket.                                                       *)
THEOREM OnlyFitSourceIsStaged == Spec => []StagedIsFit
  <1>1. Inv => StagedIsFit
    BY DEF Inv, PackageInv, StagedIsFit
  <1> QED
    BY <1>1, ShippingInvariance, PTL

(* bootstrap.py starts the runner on exactly what was packaged, on every   *)
(* node, whatever the mount delivered and the disk lost.                   *)
THEOREM RunnersStartOnTheSource == Spec => []RunnersShareTheSource
  <1>1. Inv => RunnersShareTheSource
    BY DEF Inv, Shapes, NodeInv, RunnersShareTheSource
  <1> QED
    BY <1>1, ShippingInvariance, PTL

(* A tree that nobody edits while it is packaged is staged file for file,  *)
(* without the ignored, the secret and the deleted ones; and a paid node   *)
(* refuses source for its size only if a file grew after it was counted.   *)
THEOREM PackageInvariance == Spec => [](Inv /\ QuietInv /\ BudgetInv)
  <1>1. Init => QuietInv /\ BudgetInv
    BY QuietStart
  <1>2. (Inv /\ QuietInv /\ BudgetInv) /\ [Next]_vars => (QuietInv /\ BudgetInv)'
    <2> SUFFICES ASSUME Inv, QuietInv, BudgetInv, [Next]_vars PROVE QuietInv' /\ BudgetInv'
      OBVIOUS
    <2>1. CASE UNCHANGED vars
      BY <2>1 DEF vars, command, nodeVars, QuietInv, BudgetInv, RefusedOnlyIfGrown, Bytes, Present
    <2> QED
      BY <2>1, EditKeeps, QuietStep, BudgetStep, NodeQuietStep, NodeBudgetStep DEF Next
  <1> QED
    BY <1>1, <1>2, ShippingInvariance, PTL DEF Spec

(* "Snapshot working-tree files, not HEAD", for every tree.                *)
THEOREM QuietTreesAreShippedWhole == Spec => []QuietTreeIsShippedWhole
  <1>1. Inv /\ QuietInv => QuietTreeIsShippedWhole
    BY DEF Inv, Shapes, QuietInv, Packed, QuietTreeIsShippedWhole
  <1> QED
    BY <1>1, PackageInvariance, PTL

(* The budgets of the packager and of bootstrap agree, for all limits.     *)
THEOREM BudgetsAgree == Spec => []RefusedOnlyIfGrown
  <1>1. BudgetInv => RefusedOnlyIfGrown
    BY DEF BudgetInv
  <1> QED
    BY <1>1, PackageInvariance, PTL
=============================================================================
