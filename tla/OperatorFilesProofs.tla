------------------------- MODULE OperatorFilesProofs -------------------------
(* Proofs about the files operators send: removed materials stay removed,      *)
(* secret files never become materials, and the index follows what operators   *)
(* and moderators decided.                                                     *)
EXTENDS ClientMaterials, KnowledgeUploads, WellFoundedInduction, TLAPS

(* Materials for clients. *)

MaterialRow == [from : KbFile \cup {"none", "operator"}, active : BOOLEAN,
                tagged : BOOLEAN, cached : BOOLEAN]

SendRow == [pc : {"idle", "picked", "sending", "cache"}, material : Material \cup {0},
            cached : BOOLEAN, late : BOOLEAN]

MaterialTypeOK ==
  /\ kbFile \in [KbFile -> [row : {"none", "kept", "deleted"},
                            secret : BOOLEAN, disk : BOOLEAN]]
  /\ analysis \in [KbFile -> {"idle", "asked", "model"}]
  /\ material \in [Material -> MaterialRow]
  /\ delivery \in [Delivery -> SendRow]
  /\ \A d \in Delivery : delivery[d].pc # "idle" => delivery[d].material \in Material
  /\ \A m \in Material : material[m].active => material[m].from # "none"
  /\ materialLog \in [removed : SUBSET Material,
                      sent : SUBSET [material : Material \cup {0}, late : BOOLEAN]]

\* Nothing in flight has looked a removed material up, and none is active.
RemovedIsOver ==
  /\ \A m \in materialLog.removed : ~material[m].active /\ material[m].from # "none"
  /\ \A d \in Delivery : ~delivery[d].late
  /\ \A sent \in materialLog.sent : ~sent.late

\* A file that is read by the model, or was, has been uploaded, and openly.
ReadIsOpen ==
  /\ \A f \in KbFile : analysis[f] # "idle" => kbFile[f].row # "none" /\ ~kbFile[f].secret
  /\ \A m \in Material : material[m].from \in KbFile =>
       kbFile[material[m].from].row # "none" /\ ~kbFile[material[m].from].secret

MaterialInv == MaterialTypeOK /\ RemovedIsOver /\ ReadIsOpen

\* What a row stays when one field of it is assigned.
LEMMA FieldsOfARow ==
  ASSUME NEW row \in MaterialRow
  PROVE  /\ [row EXCEPT !.active = FALSE] \in MaterialRow
         /\ [row EXCEPT !.active = FALSE].active = FALSE
         /\ [row EXCEPT !.cached = TRUE] \in MaterialRow
         /\ [row EXCEPT !.cached = TRUE].active = row.active
         /\ [row EXCEPT !.cached = TRUE].from = row.from
         /\ [row EXCEPT !.active = FALSE].from = row.from
BY DEF MaterialRow

LEMMA InitMaterial == MaterialInit => MaterialInv
BY MaterialBounds, KbFileNames
   DEF MaterialInit, MaterialInv, MaterialTypeOK, RemovedIsOver, ReadIsOpen, NoMaterial,
       NoDelivery, SendRow, MaterialRow, Material

\* A new row takes an id that no removed material and no delivery has.
LEMMA AddKeeps ==
  ASSUME MaterialInv, NEW new \in MaterialRow, Add(new), UNCHANGED <<Files, Sending>>,
         new.from # "none",
         new.from \in KbFile => kbFile[new.from].row # "none" /\ ~kbFile[new.from].secret
  PROVE  MaterialInv'
<1>1. PICK m \in Material : material[m] = NoMaterial /\ material' = [material EXCEPT ![m] = new]
  BY DEF Add
<1>2. MaterialTypeOK'
  BY <1>1 DEF MaterialInv, MaterialTypeOK, Files, Sending
<1>3. RemovedIsOver'
  BY <1>1 DEF MaterialInv, MaterialTypeOK, RemovedIsOver, NoMaterial, Files, Sending
<1>4. ReadIsOpen'
  BY <1>1 DEF MaterialInv, MaterialTypeOK, ReadIsOpen, Files, Sending
<1> QED
  BY <1>2, <1>3, <1>4 DEF MaterialInv

LEMMA FileStepsKeep ==
  ASSUME MaterialInv, NEW f \in KbFile
  PROVE  /\ \A secret \in BOOLEAN : analyze_kb_uploads(f, secret) => MaterialInv'
         /\ analysis_reads(f) \/ analyze_and_register(f) \/ delete_kb_file(f) => MaterialInv'
<1>1. ASSUME NEW secret \in BOOLEAN, analyze_kb_uploads(f, secret) PROVE MaterialInv'
  <2>1. MaterialTypeOK'
    BY <1>1 DEF MaterialInv, MaterialTypeOK, analyze_kb_uploads, Sending
  <2>2. RemovedIsOver'
    BY <1>1 DEF MaterialInv, MaterialTypeOK, RemovedIsOver, analyze_kb_uploads, Sending
  <2>3. ReadIsOpen'
    BY <1>1 DEF MaterialInv, MaterialTypeOK, ReadIsOpen, analyze_kb_uploads, Sending
  <2> QED
    BY <2>1, <2>2, <2>3 DEF MaterialInv
<1>2. ASSUME analysis_reads(f) PROVE MaterialInv'
  <2>1. MaterialTypeOK'
    BY <1>2 DEF MaterialInv, MaterialTypeOK, analysis_reads, Sending
  <2>2. RemovedIsOver'
    BY <1>2 DEF MaterialInv, MaterialTypeOK, RemovedIsOver, analysis_reads, Sending
  <2>3. ReadIsOpen'
    BY <1>2 DEF MaterialInv, MaterialTypeOK, ReadIsOpen, analysis_reads, Sending
  <2> QED
    BY <2>1, <2>2, <2>3 DEF MaterialInv
<1>3. ASSUME analyze_and_register(f) PROVE MaterialInv'
  <2> DEFINE new == [NoMaterial EXCEPT !.from = f, !.active = TRUE]
  <2>1. new \in MaterialRow /\ new.from = f
    BY DEF MaterialRow, NoMaterial
  <2>2. analysis[f] = "model" /\ kbFile[f].row # "none" /\ ~kbFile[f].secret /\ f # "none"
    BY <1>3, KbFileNames DEF MaterialInv, ReadIsOpen, analyze_and_register
  <2>3. CASE Add(new)
    <3>1. PICK m \in Material :
            material[m] = NoMaterial /\ material' = [material EXCEPT ![m] = new]
      BY <2>3 DEF Add
    <3>2. MaterialTypeOK'
      <4>1. /\ material' \in [Material -> MaterialRow]
            /\ \A n \in Material : material'[n].active => material'[n].from # "none"
        BY <2>1, <2>2, <3>1 DEF MaterialInv, MaterialTypeOK
      <4>2. analysis' = [analysis EXCEPT ![f] = "idle"] /\ UNCHANGED <<kbFile, Sending>>
        BY <1>3 DEF analyze_and_register
      <4> QED
        BY <4>1, <4>2 DEF MaterialInv, MaterialTypeOK, Sending
    <3>3. RemovedIsOver'
      BY <1>3, <3>1, <2>1
         DEF MaterialInv, MaterialTypeOK, RemovedIsOver, NoMaterial, analyze_and_register, Sending
    <3>4. ReadIsOpen'
      BY <1>3, <3>1, <2>1, <2>2
         DEF MaterialInv, MaterialTypeOK, ReadIsOpen, analyze_and_register, Sending
    <3> QED
      BY <3>2, <3>3, <3>4 DEF MaterialInv
  <2>4. CASE UNCHANGED material
    <3>1. MaterialTypeOK'
      BY <1>3, <2>4 DEF MaterialInv, MaterialTypeOK, analyze_and_register, Sending
    <3>2. RemovedIsOver'
      BY <1>3, <2>4 DEF MaterialInv, MaterialTypeOK, RemovedIsOver, analyze_and_register, Sending
    <3>3. ReadIsOpen'
      BY <1>3, <2>4 DEF MaterialInv, MaterialTypeOK, ReadIsOpen, analyze_and_register, Sending
    <3> QED
      BY <3>1, <3>2, <3>3 DEF MaterialInv
  <2> QED
    BY <1>3, <2>3, <2>4 DEF analyze_and_register
<1>4. ASSUME delete_kb_file(f) PROVE MaterialInv'
  <2>1. MaterialTypeOK'
    <3>1. PICK unlinked \in BOOLEAN :
            kbFile' = [kbFile EXCEPT ![f].row = "deleted", ![f].disk = ~unlinked]
      BY <1>4 DEF delete_kb_file
    <3>2. kbFile' \in [KbFile -> [row : {"none", "kept", "deleted"},
                                 secret : BOOLEAN, disk : BOOLEAN]]
      <4> DEFINE gone == [kbFile[f] EXCEPT !.row = "deleted", !.disk = ~unlinked]
      <4>1. gone \in [row : {"none", "kept", "deleted"}, secret : BOOLEAN, disk : BOOLEAN]
        BY ZenonT(30) DEF MaterialInv, MaterialTypeOK
      <4>2. kbFile' = [kbFile EXCEPT ![f] = gone]
        BY <3>1 DEF MaterialInv, MaterialTypeOK
      <4> QED
        BY <4>1, <4>2 DEF MaterialInv, MaterialTypeOK
    <3> QED
      BY <1>4, <3>2 DEF MaterialInv, MaterialTypeOK, delete_kb_file, Sending
  <2>2. RemovedIsOver'
    BY <1>4 DEF MaterialInv, MaterialTypeOK, RemovedIsOver, delete_kb_file, Sending
  <2>3. ReadIsOpen'
    BY <1>4 DEF MaterialInv, MaterialTypeOK, ReadIsOpen, delete_kb_file, Sending
  <2> QED
    BY <2>1, <2>2, <2>3 DEF MaterialInv
<1> QED
  BY <1>1, <1>2, <1>3, <1>4

LEMMA OperatorStepsKeep ==
  ASSUME MaterialInv,
         handle_material_register \/ sales_materials_add
           \/ \E m \in Material : handle_material_remove(m)
  PROVE  MaterialInv'
<1>1. CASE handle_material_register
  <2> DEFINE new == [NoMaterial EXCEPT !.from = "operator", !.active = TRUE, !.cached = TRUE]
  <2>1. new \in MaterialRow /\ new.from = "operator"
    BY DEF MaterialRow, NoMaterial
  <2> QED
    BY <1>1, <2>1, AddKeeps, KbFileNames DEF handle_material_register
<1>2. CASE sales_materials_add
  <2> DEFINE new == [NoMaterial EXCEPT !.from = "operator", !.active = TRUE, !.tagged = TRUE]
  <2>1. new \in MaterialRow /\ new.from = "operator"
    BY DEF MaterialRow, NoMaterial
  <2> QED
    BY <1>2, <2>1, AddKeeps, KbFileNames DEF sales_materials_add
<1>3. ASSUME NEW m \in Material, handle_material_remove(m) PROVE MaterialInv'
  <2>1. MaterialTypeOK'
    <3>1. /\ material' = [material EXCEPT ![m].active = FALSE]
          /\ materialLog' = [materialLog EXCEPT !.removed = @ \cup {m}]
          /\ UNCHANGED <<Files, delivery>>
      BY <1>3 DEF handle_material_remove
    <3>2. material' \in [Material -> MaterialRow]
      BY <3>1, FieldsOfARow DEF MaterialInv, MaterialTypeOK
    <3>3. \A n \in Material : material'[n].active => material'[n].from # "none"
      BY <3>1, FieldsOfARow DEF MaterialInv, MaterialTypeOK
    <3>4. materialLog' \in [removed : SUBSET Material,
                           sent : SUBSET [material : Material \cup {0}, late : BOOLEAN]]
      BY <3>1 DEF MaterialInv, MaterialTypeOK
    <3> QED
      BY <3>1, <3>2, <3>3, <3>4 DEF MaterialInv, MaterialTypeOK, Files
  <2>2. material[m].from # "none"
    BY <1>3 DEF handle_material_remove, MaterialInv, MaterialTypeOK
  <2>3. RemovedIsOver'
    BY <1>3, <2>2 DEF MaterialInv, MaterialTypeOK, MaterialRow, RemovedIsOver,
                      handle_material_remove, Files
  <2>4. ReadIsOpen'
    BY <1>3 DEF MaterialInv, MaterialTypeOK, MaterialRow, ReadIsOpen, handle_material_remove, Files
  <2> QED
    BY <2>1, <2>3, <2>4 DEF MaterialInv
<1> QED
  BY <1>1, <1>2, <1>3

LEMMA DeliveryStepsKeep ==
  ASSUME MaterialInv, NEW d \in Delivery
  PROVE  /\ \A m \in Material : dispatch_by_id(d, m) => MaterialInv'
         /\ fire_media_moment(d) => MaterialInv'
         /\ sales_dispatch_material(d) => MaterialInv'
         /\ send_media(d) => MaterialInv'
         /\ update_telegram_file_id(d) => MaterialInv'
<1>1. ASSUME NEW m \in Material,
             delivery' = [delivery EXCEPT ![d].pc = "picked", ![d].material = m],
             UNCHANGED <<Files, material, materialLog>>
      PROVE  MaterialInv'
  <2> DEFINE new == [delivery[d] EXCEPT !.pc = "picked", !.material = m]
  <2>1. MaterialTypeOK'
    <3>1. new \in SendRow /\ new.material = m
      BY DEF MaterialInv, MaterialTypeOK, SendRow
    <3>2. delivery' = [delivery EXCEPT ![d] = new]
      BY <1>1 DEF MaterialInv, MaterialTypeOK
    <3> HIDE DEF new
    <3> QED
      BY <1>1, <3>1, <3>2, ZenonT(30) DEF MaterialInv, MaterialTypeOK, Files
  <2>2. RemovedIsOver' /\ ReadIsOpen'
    BY <1>1 DEF MaterialInv, MaterialTypeOK, SendRow, RemovedIsOver, ReadIsOpen, Files
  <2> QED
    BY <2>1, <2>2 DEF MaterialInv
<1>2. \A m \in Material : dispatch_by_id(d, m) => MaterialInv'
  BY <1>1 DEF dispatch_by_id
<1>3. fire_media_moment(d) => MaterialInv'
  BY <1>1 DEF fire_media_moment, Sendable
<1>4. ASSUME sales_dispatch_material(d) PROVE MaterialInv'
  <2>1. CASE material[delivery[d].material].active
    <3>1. delivery' = [delivery EXCEPT ![d] =
              [@ EXCEPT !.pc = "sending", !.cached = material[delivery[d].material].cached,
                        !.late = delivery[d].material \in materialLog.removed]]
      BY <1>4, <2>1 DEF sales_dispatch_material
    <3>2. delivery[d].material \in Material /\ delivery[d].material \notin materialLog.removed
      BY <1>4, <2>1 DEF sales_dispatch_material, MaterialInv, MaterialTypeOK, RemovedIsOver
    <3>3. UNCHANGED <<Files, material, materialLog>>
      BY <1>4 DEF sales_dispatch_material
    <3>4. MaterialTypeOK'
      <4> DEFINE m == delivery[d].material
                 new == [delivery[d] EXCEPT !.pc = "sending", !.cached = material[m].cached,
                                            !.late = FALSE]
      <4>1. material[m].cached \in BOOLEAN
        BY <3>2 DEF MaterialInv, MaterialTypeOK, MaterialRow
      <4>2. new \in SendRow /\ new.material = m
        BY <4>1, ZenonT(30) DEF MaterialInv, MaterialTypeOK, SendRow
      <4>3. delivery' = [delivery EXCEPT ![d] = new]
        <5>1. (m \in materialLog.removed) = FALSE
          BY <3>2
        <5> QED
          BY <3>1, <5>1, Zenon
      <4> HIDE DEF new
      <4> QED
        BY <3>2, <3>3, <4>2, <4>3 DEF MaterialInv, MaterialTypeOK, Files
    <3>5. RemovedIsOver' /\ ReadIsOpen'
      BY <3>1, <3>2, <3>3 DEF MaterialInv, MaterialTypeOK, SendRow, RemovedIsOver, ReadIsOpen, Files
    <3> QED
      BY <3>4, <3>5 DEF MaterialInv
  <2>2. CASE ~material[delivery[d].material].active
    <3>1. MaterialTypeOK'
      BY <1>4, <2>2 DEF MaterialInv, MaterialTypeOK, SendRow, sales_dispatch_material, NoDelivery, Files
    <3>2. RemovedIsOver' /\ ReadIsOpen'
      BY <1>4, <2>2 DEF MaterialInv, MaterialTypeOK, RemovedIsOver, ReadIsOpen,
                        sales_dispatch_material, NoDelivery, Files
    <3> QED
      BY <3>1, <3>2 DEF MaterialInv
  <2> QED
    BY <2>1, <2>2
<1>5. ASSUME send_media(d) PROVE MaterialInv'
  <2> DEFINE sent == [material |-> delivery[d].material, late |-> delivery[d].late]
  <2>1. UNCHANGED <<Files, material>>
    BY <1>5 DEF send_media
  <2>2. \/ delivery' = [delivery EXCEPT ![d] = [@ EXCEPT !.pc = "cache"]]
        \/ delivery' = [delivery EXCEPT ![d] = NoDelivery]
    BY <1>5 DEF send_media
  <2>3. \/ materialLog' = [materialLog EXCEPT !.sent = @ \cup {sent}]
        \/ materialLog' = materialLog
    BY <1>5 DEF send_media
  <2>4. delivery[d].pc = "sending"
    BY <1>5 DEF send_media
  <2>5. /\ sent \in [material : Material \cup {0}, late : BOOLEAN]
        /\ ~sent.late
    BY DEF MaterialInv, MaterialTypeOK, SendRow, RemovedIsOver
  <2>6. /\ materialLog' \in [removed : SUBSET Material,
                             sent : SUBSET [material : Material \cup {0}, late : BOOLEAN]]
        /\ materialLog'.removed = materialLog.removed
        /\ \A s \in materialLog'.sent : ~s.late
    BY <2>3, <2>5 DEF MaterialInv, MaterialTypeOK, RemovedIsOver
  <2>7. MaterialTypeOK'
    <3>1. /\ [delivery[d] EXCEPT !.pc = "cache"] \in SendRow
          /\ [delivery[d] EXCEPT !.pc = "cache"].material = delivery[d].material
          /\ NoDelivery \in SendRow /\ NoDelivery.pc = "idle"
      BY DEF MaterialInv, MaterialTypeOK, SendRow, NoDelivery
    <3>2. delivery[d].material \in Material
      BY <2>4 DEF MaterialInv, MaterialTypeOK
    <3>3. CASE delivery' = [delivery EXCEPT ![d] = [@ EXCEPT !.pc = "cache"]]
      BY <2>1, <2>6, <3>1, <3>2, <3>3 DEF MaterialInv, MaterialTypeOK, Files
    <3>4. CASE delivery' = [delivery EXCEPT ![d] = NoDelivery]
      BY <2>1, <2>6, <3>1, <3>4 DEF MaterialInv, MaterialTypeOK, Files
    <3> QED
      BY <2>2, <3>3, <3>4
  <2>8. RemovedIsOver' /\ ReadIsOpen'
    <3>1. ~[delivery[d] EXCEPT !.pc = "cache"].late /\ ~NoDelivery.late
      BY DEF MaterialInv, MaterialTypeOK, SendRow, RemovedIsOver, NoDelivery
    <3>2. \A e \in Delivery : ~delivery'[e].late
      BY <2>2, <3>1 DEF MaterialInv, MaterialTypeOK, RemovedIsOver
    <3> QED
      BY <2>1, <2>6, <3>2 DEF MaterialInv, RemovedIsOver, ReadIsOpen, Files
  <2> QED
    BY <2>7, <2>8 DEF MaterialInv
<1>6. ASSUME update_telegram_file_id(d) PROVE MaterialInv'
  <2>1. /\ delivery[d].pc = "cache"
        /\ material' = [material EXCEPT ![delivery[d].material].cached = TRUE]
        /\ delivery' = [delivery EXCEPT ![d] = NoDelivery]
        /\ UNCHANGED <<Files, materialLog>>
    BY <1>6 DEF update_telegram_file_id
  <2>2. delivery[d].material \in Material
    BY <2>1 DEF MaterialInv, MaterialTypeOK
  <2>3. material' \in [Material -> MaterialRow]
    BY <2>1, <2>2, FieldsOfARow DEF MaterialInv, MaterialTypeOK
  <2>4. \A m \in Material : /\ material'[m].active = material[m].active
                            /\ material'[m].from = material[m].from
    BY <2>1, <2>2 DEF MaterialInv, MaterialTypeOK, MaterialRow
  <2>5. MaterialTypeOK'
    BY <2>1, <2>3, <2>4 DEF MaterialInv, MaterialTypeOK, SendRow, NoDelivery, Files
  <2>6. RemovedIsOver' /\ ReadIsOpen'
    BY <2>1, <2>4 DEF MaterialInv, MaterialTypeOK, RemovedIsOver, ReadIsOpen, NoDelivery, Files
  <2> QED
    BY <2>5, <2>6 DEF MaterialInv
<1> QED
  BY <1>2, <1>3, <1>4, <1>5, <1>6

LEMMA RestartKeeps ==
  ASSUME MaterialInv, RestartMaterials \/ UNCHANGED materialVars
  PROVE  MaterialInv'
<1>1. CASE RestartMaterials
  BY <1>1 DEF MaterialInv, MaterialTypeOK, SendRow, RemovedIsOver, ReadIsOpen,
              RestartMaterials, NoDelivery
<1>2. CASE UNCHANGED materialVars
  BY <1>2 DEF MaterialInv, MaterialTypeOK, RemovedIsOver, ReadIsOpen, materialVars
<1> QED
  BY <1>1, <1>2

\* In every reachable state removed rows are inactive and of nobody's interest,
\* and what the model reads was uploaded openly: the invariant behind the
\* promise of main.py's dispatch and of the analyzer.
THEOREM MaterialsInvariant == MaterialSpec => []MaterialInv
<1>1. MaterialInv /\ [MaterialNext]_materialVars => MaterialInv'
  BY FileStepsKeep, OperatorStepsKeep, DeliveryStepsKeep, RestartKeeps DEF MaterialNext
<1> QED
  BY <1>1, InitMaterial, PTL DEF MaterialSpec

\* A material that has been removed is sent by no turn that looks it up later,
\* and no secret file of the knowledge base is ever a material.
THEOREM RemovedOrSecretIsNotSent == MaterialSpec => []CustomersGetMaterials
<1>1. MaterialInv => CustomersGetMaterials
  BY DEF MaterialInv, RemovedIsOver, ReadIsOpen, CustomersGetMaterials
<1> QED
  BY <1>1, MaterialsInvariant, PTL

-----------------------------------------------------------------------------

(* Files for the knowledge base. *)

CandidateOrNone == 0..MaxCandidate
FileRow == [status : {"none", "pending", "ok", "failed", "deleted"},
            binary : Binary \cup {"none"}, candidate : CandidateOrNone]
UploadRow == [pc : {"idle", "queued", "sent", "transcribe", "done", "refused"},
              secret : Secrecy, candidate : CandidateOrNone, new : BOOLEAN]
CandidateRow == [status : {"none", "pending", "approved", "rejected", "deleted"},
                 binary : Binary \cup {"none"}]
ReviewRow == [pc : {"idle", "index", "mark", "write"}, candidate : CandidateOrNone,
              approves : BOOLEAN]
UploadLog == [secret : SUBSET OpFile, added : SUBSET [file : OpFile, candidate : Candidate],
              unfinished : SUBSET Candidate]
Album == [items : [OpFile -> {"no"} \cup Secrecy], flush : BOOLEAN]

UploadTypeOK ==
  /\ kbSession \in {"none"} \cup Secrecy
  /\ album \in Album
  /\ opFile \in [OpFile -> FileRow]
  /\ upload \in [OpFile -> UploadRow]
  /\ candidate \in [Candidate -> CandidateRow]
  /\ chunks \in [Candidate -> {"none"} \cup Secrecy]
  /\ review \in [Moderator -> ReviewRow]
  /\ uploadLog \in UploadLog

\* A file is sent once, and one that was sent in a secret session stays secret
\* through the album and the upload.
SecretStaysSecret ==
  \A f \in OpFile :
    /\ opFile[f].binary = "none" => /\ upload[f].pc = "idle" /\ album.items[f] = "no"
                                    /\ f \notin uploadLog.secret
    /\ f \in uploadLog.secret => /\ upload[f].pc # "idle" => upload[f].secret = "secret"
                                 /\ album.items[f] # "open"

Reviewed(c) == \E m \in Moderator : review[m].candidate = c

\* A candidate that needs no moderator, and has the chunks of an upload.
Uploaded(c, secrecy) ==
  /\ c \in Candidate /\ ~Reviewed(c)
  /\ candidate[c].status \in {"approved", "deleted"}
  /\ candidate[c].status = "approved" => chunks[c] = secrecy

KeptUpload(f) ==
  upload[f].new => \/ upload[f].pc = "refused"
                   \/ /\ upload[f].pc = "done"
                      /\ Uploaded(upload[f].candidate, upload[f].secret)

KeptAddition(a) ==
  /\ opFile[a.file].binary # "none"
  /\ \E secrecy \in Secrecy :
       /\ Uploaded(a.candidate, secrecy)
       /\ a.file \in uploadLog.secret => secrecy = "secret"

UploadsAreKept ==
  /\ \A f \in OpFile : KeptUpload(f)
  /\ \A a \in uploadLog.added : KeptAddition(a)

\* A review is of a candidate that there is; and chunks that no interrupted
\* approval left behind are those of a decision that is over.
ReviewsAreKnown ==
  /\ \A m \in Moderator :
       /\ review[m].pc = "idle" <=> review[m].candidate = 0
       /\ review[m].pc # "idle" => candidate[review[m].candidate].status # "none"
  /\ \A c \in Candidate : chunks[c] # "none" /\ c \notin uploadLog.unfinished =>
       ~Reviewed(c) /\ candidate[c].status = "approved"

UploadInv == UploadTypeOK /\ SecretStaysSecret /\ UploadsAreKept /\ ReviewsAreKnown

LEMMA UploadRows ==
  /\ 0 \in CandidateOrNone
  /\ NoUpload \in UploadRow /\ NoUpload.pc = "idle" /\ ~NoUpload.new
  /\ \A secrecy \in Secrecy :
       LET u == [NoUpload EXCEPT !.pc = "queued", !.secret = secrecy] IN
       /\ u \in UploadRow /\ u.pc = "queued" /\ u.secret = secrecy /\ ~u.new
  /\ NoReview \in ReviewRow /\ NoReview.pc = "idle" /\ NoReview.candidate = 0
<1>1. 0 \in CandidateOrNone BY UploadBounds DEF CandidateOrNone
<1> QED BY <1>1 DEF NoUpload, UploadRow, NoReview, ReviewRow, Secrecy

LEMMA CandidatesCount == \A c \in Candidate : c \in CandidateOrNone /\ c # 0
BY UploadBounds DEF Candidate, CandidateOrNone

LEMMA SmallestTwin ==
  ASSUME NEW twins \in SUBSET Candidate, twins # {}
  PROVE  \E c \in twins : \A d \in twins : c <= d
<1> DEFINE Less == OpToRel(<, Nat)
<1>1. twins \subseteq Nat BY UploadBounds DEF Candidate
<1>2. IsWellFoundedOn(Less, Nat) BY NatLessThanWellFounded
<1>3. \A c, d \in Nat : c < d => <<c, d>> \in Less BY DEF OpToRel
<1> HIDE DEF Less
<1>4. PICK c \in twins : \A d \in twins : <<d, c>> \notin Less BY <1>1, <1>2, WFMin
<1>5. \A d \in twins : ~(d < c) BY <1>1, <1>3, <1>4
<1> QED BY <1>1, <1>4, <1>5

LEMMA InitUploads == UploadInit => UploadInv
<1> SUFFICES ASSUME UploadInit PROVE UploadInv
  OBVIOUS
<1>1. /\ kbSession = "none" /\ uploadLog = [secret |-> {}, added |-> {}, unfinished |-> {}]
      /\ album = [items |-> [f \in OpFile |-> "no"], flush |-> FALSE]
      /\ opFile \in [OpFile -> FileRow] /\ upload \in [OpFile -> UploadRow]
      /\ candidate \in [Candidate -> CandidateRow] /\ review \in [Moderator -> ReviewRow]
      /\ chunks \in [Candidate -> {"none"} \cup Secrecy]
      /\ \A f \in OpFile : upload[f] = NoUpload
      /\ \A c \in Candidate : chunks[c] = "none"
      /\ \A m \in Moderator : review[m] = NoReview
  BY UploadRows DEF UploadInit, FileRow, CandidateRow
<1>2. album \in Album /\ uploadLog \in UploadLog /\ \A f \in OpFile : album.items[f] = "no"
  BY <1>1 DEF Album, UploadLog
<1>3. UploadTypeOK BY <1>1, <1>2 DEF UploadTypeOK
<1>4. SecretStaysSecret BY <1>1, <1>2, UploadRows DEF SecretStaysSecret
<1>5. UploadsAreKept BY <1>1, UploadRows DEF UploadsAreKept, KeptUpload
<1>6. ReviewsAreKnown BY <1>1, UploadRows DEF ReviewsAreKnown
<1> QED BY <1>3, <1>4, <1>5, <1>6 DEF UploadInv

\* What was uploaded stays so, as long as no review takes it up and only a
\* deletion changes it.
LEMMA KeptStep ==
  ASSUME UploadInv,
         \A f \in OpFile : upload'[f] = upload[f] \/ KeptUpload(f)',
         \A a \in uploadLog'.added : a \in uploadLog.added \/ KeptAddition(a)',
         \A f \in OpFile : opFile[f].binary # "none" =>
           opFile'[f].binary # "none" /\ (f \in uploadLog'.secret => f \in uploadLog.secret),
         \A c \in Candidate :
           ~Reviewed(c) /\ candidate[c].status \in {"approved", "deleted"} =>
             /\ ~Reviewed(c)'
             /\ \/ candidate'[c].status = candidate[c].status /\ chunks'[c] = chunks[c]
                \/ candidate'[c].status = "deleted"
  PROVE  UploadsAreKept'
<1> USE DEF UploadInv
<1>1. ASSUME NEW c, NEW secrecy, Uploaded(c, secrecy) PROVE Uploaded(c, secrecy)'
  BY <1>1 DEF Uploaded
<1>2. ASSUME NEW f \in OpFile PROVE KeptUpload(f)'
  <2>1. CASE upload'[f] = upload[f] /\ upload[f].new /\ upload[f].pc # "refused"
    <3>1. PICK c, secrecy : /\ c = upload[f].candidate /\ secrecy = upload[f].secret
      OBVIOUS
    <3>2. upload[f].pc = "done" /\ Uploaded(c, secrecy)
      BY <2>1, <3>1 DEF UploadsAreKept, KeptUpload
    <3>3. Uploaded(c, secrecy)' BY <1>1, <3>2
    <3>4. c = upload'[f].candidate /\ secrecy = upload'[f].secret BY <2>1, <3>1
    <3> QED BY <2>1, <3>2, <3>3, <3>4 DEF KeptUpload, Uploaded
  <2>2. CASE upload'[f] = upload[f] /\ ~(upload[f].new /\ upload[f].pc # "refused")
    BY <2>2 DEF KeptUpload
  <2> QED BY <2>1, <2>2
<1>3. ASSUME NEW a \in uploadLog.added PROVE KeptAddition(a)'
  <2>1. a.file \in OpFile BY DEF UploadTypeOK, UploadLog
  <2>2. KeptAddition(a) BY DEF UploadsAreKept
  <2>3. PICK secrecy \in Secrecy : /\ Uploaded(a.candidate, secrecy)
                                   /\ a.file \in uploadLog.secret => secrecy = "secret"
    BY <2>2 DEF KeptAddition
  <2>4. Uploaded(a.candidate, secrecy)' BY <1>1, <2>3
  <2>5. opFile'[a.file].binary # "none" /\ (a.file \in uploadLog'.secret => a.file \in uploadLog.secret)
    BY <2>1, <2>2 DEF KeptAddition
  <2> QED BY <2>3, <2>4, <2>5 DEF KeptAddition
<1> QED BY <1>2, <1>3 DEF UploadsAreKept

\* A step of the bot leaves candidates, chunks and reviews alone.
LEMMA BotStep ==
  ASSUME UploadInv, UNCHANGED Reviews, uploadLog'.unfinished = uploadLog.unfinished,
         \A f \in OpFile : upload'[f] = upload[f] \/ ~upload'[f].new,
         \A a \in uploadLog'.added : a \in uploadLog.added \/ KeptAddition(a)',
         \A f \in OpFile : opFile[f].binary # "none" =>
           opFile'[f].binary # "none" /\ (f \in uploadLog'.secret => f \in uploadLog.secret)
  PROVE  UploadsAreKept' /\ ReviewsAreKnown'
<1>1. candidate' = candidate /\ chunks' = chunks /\ review' = review BY DEF Reviews
<1>2. UploadsAreKept' BY <1>1, KeptStep DEF KeptUpload, Reviewed
<1>3. ReviewsAreKnown' BY <1>1 DEF UploadInv, ReviewsAreKnown, Reviewed
<1> QED BY <1>2, <1>3

LEMMA SendKeeps ==
  ASSUME UploadInv, NEW f \in OpFile, NEW b \in Binary, NEW secrecy \in Secrecy,
         NEW inAlbum \in BOOLEAN, opFile[f].binary = "none",
         opFile' = [opFile EXCEPT ![f].binary = b], kbSession' \in {"none"} \cup Secrecy,
         Accept(f, secrecy, inAlbum), UNCHANGED Reviews,
         uploadLog' = IF secrecy = "secret"
                        THEN [uploadLog EXCEPT !.secret = @ \cup {f}] ELSE uploadLog
  PROVE  UploadInv'
<1> USE DEF UploadInv
<1>1. /\ opFile \in [OpFile -> FileRow] /\ upload \in [OpFile -> UploadRow]
      /\ album \in Album /\ uploadLog \in UploadLog /\ album.items \in [OpFile -> {"no"} \cup Secrecy]
      /\ candidate' = candidate /\ chunks' = chunks /\ review' = review
  BY DEF UploadTypeOK, Album, Reviews
<1>2. /\ opFile' \in [OpFile -> FileRow]
      /\ \A g \in OpFile : opFile'[g].binary = IF g = f THEN b ELSE opFile[g].binary
  BY <1>1 DEF FileRow
<1>3. /\ uploadLog' \in UploadLog /\ uploadLog'.added = uploadLog.added
      /\ uploadLog'.unfinished = uploadLog.unfinished
      /\ uploadLog'.secret = IF secrecy = "secret" THEN uploadLog.secret \cup {f}
                                                   ELSE uploadLog.secret
  BY <1>1 DEF UploadLog
<1>4. /\ upload[f].pc = "idle" /\ album.items[f] = "no" /\ f \notin uploadLog.secret
      /\ b # "none"
  BY UploadBounds DEF SecretStaysSecret
<1>5. /\ album' \in Album /\ upload' \in [OpFile -> UploadRow]
      /\ \A g \in OpFile \ {f} : upload'[g] = upload[g] /\ album'.items[g] = album.items[g]
      /\ ~upload'[f].new \/ upload'[f] = upload[f]
      /\ upload'[f].pc = "idle" \/ upload'[f].secret = secrecy
      /\ album'.items[f] \in {"no", secrecy}
  <2>1. CASE inAlbum
    <3> DEFINE items == [album.items EXCEPT ![f] = secrecy]
    <3>1. items \in [OpFile -> {"no"} \cup Secrecy]
          /\ \A g \in OpFile : items[g] = IF g = f THEN secrecy ELSE album.items[g]
      BY <1>1
    <3>2. album' = [items |-> items, flush |-> TRUE] /\ upload' = upload BY <2>1 DEF Accept
    <3> HIDE DEF items
    <3>3. album' \in Album /\ album'.items = items BY <3>1, <3>2 DEF Album
    <3> QED BY <1>1, <1>4, <3>1, <3>2, <3>3
  <2>2. CASE ~inAlbum
    <3> DEFINE u == [NoUpload EXCEPT !.pc = "queued", !.secret = secrecy]
    <3>1. upload' = [upload EXCEPT ![f] = u] /\ album' = album BY <2>2 DEF Accept
    <3>2. u \in UploadRow /\ u.secret = secrecy /\ ~u.new BY UploadRows
    <3> HIDE DEF u
    <3> QED BY <1>1, <1>4, <3>1, <3>2
  <2> QED BY <2>1, <2>2
<1>6. UploadTypeOK' BY <1>1, <1>2, <1>3, <1>5 DEF UploadTypeOK
<1>7. SecretStaysSecret'
  <2> SUFFICES ASSUME NEW g \in OpFile
               PROVE  /\ opFile'[g].binary = "none" => /\ upload'[g].pc = "idle"
                                                       /\ album'.items[g] = "no"
                                                       /\ g \notin uploadLog'.secret
                      /\ g \in uploadLog'.secret =>
                           /\ upload'[g].pc # "idle" => upload'[g].secret = "secret"
                           /\ album'.items[g] # "open"
    BY DEF SecretStaysSecret
  <2>1. CASE g = f BY <1>2, <1>3, <1>4, <1>5, <2>1
  <2>2. CASE g # f BY <1>2, <1>3, <1>5, <2>2 DEF SecretStaysSecret
  <2> QED BY <2>1, <2>2
<1>8. UploadsAreKept' /\ ReviewsAreKnown'
  <2>1. \A g \in OpFile : upload'[g] = upload[g] \/ ~upload'[g].new BY <1>5
  <2>2. \A g \in OpFile : opFile[g].binary # "none" =>
          opFile'[g].binary # "none" /\ (g \in uploadLog'.secret => g \in uploadLog.secret)
    BY <1>2, <1>3, <1>4
  <2> QED BY <1>3, <2>1, <2>2, BotStep
<1> QED BY <1>6, <1>7, <1>8

LEMMA FlushKeeps == ASSUME UploadInv, flush_media_group PROVE UploadInv'
<1> USE DEF UploadInv
<1> DEFINE secrecy == IF kbSession = "secret" \/ \E f \in OpFile : album.items[f] = "secret"
                        THEN "secret" ELSE "open"
           u == [NoUpload EXCEPT !.pc = "queued", !.secret = secrecy]
<1>1. /\ album' = EmptyAlbum /\ UNCHANGED <<kbSession, opFile, uploadLog, Reviews>>
      /\ upload' = IF kbSession = "none" THEN upload
                   ELSE [f \in OpFile |-> IF album.items[f] = "no" THEN upload[f] ELSE u]
  BY DEF flush_media_group, FlushAs
<1>2. secrecy \in Secrecy BY DEF Secrecy
<1>3. u \in UploadRow /\ u.pc = "queued" /\ u.secret = secrecy /\ ~u.new BY <1>2, UploadRows
<1>4. \A f \in OpFile : album.items[f] = "secret" => secrecy = "secret" OBVIOUS
<1> HIDE DEF u, secrecy
<1>5. /\ upload \in [OpFile -> UploadRow] /\ \A f \in OpFile : album.items[f] \in {"no"} \cup Secrecy
      /\ candidate' = candidate /\ chunks' = chunks /\ review' = review
  BY <1>1 DEF UploadTypeOK, Album, Reviews
<1>6. /\ upload' \in [OpFile -> UploadRow]
      /\ \A f \in OpFile : upload'[f] = upload[f] \/ (album.items[f] # "no" /\ upload'[f] = u)
  BY <1>1, <1>3, <1>5
<1>7. album' \in Album /\ \A f \in OpFile : album'.items[f] = "no" BY <1>1 DEF EmptyAlbum, Album
<1>8. UploadTypeOK' BY <1>1, <1>5, <1>6, <1>7 DEF UploadTypeOK
<1>9. SecretStaysSecret'
  BY <1>1, <1>3, <1>4, <1>5, <1>6, <1>7 DEF SecretStaysSecret, Secrecy
<1>10. UploadsAreKept' /\ ReviewsAreKnown'
  <2>1. \A f \in OpFile : upload'[f] = upload[f] \/ ~upload'[f].new BY <1>3, <1>6
  <2> QED BY <1>1, <2>1, BotStep
<1> QED BY <1>8, <1>9, <1>10

\* A step of the upload of one file, in the bot.
LEMMA BotMoves ==
  ASSUME UploadInv, NEW f \in OpFile, NEW u \in UploadRow, NEW row \in FileRow,
         upload[f].pc # "idle", ~u.new, u.secret = upload[f].secret \/ u.pc = "idle",
         row.binary = opFile[f].binary,
         upload' = [upload EXCEPT ![f] = u], opFile' = [opFile EXCEPT ![f] = row],
         uploadLog' \in UploadLog, uploadLog'.secret = uploadLog.secret,
         uploadLog'.unfinished = uploadLog.unfinished,
         \A a \in uploadLog'.added : a \in uploadLog.added \/ KeptAddition(a)',
         UNCHANGED <<kbSession, album, Reviews>>
  PROVE  UploadInv'
<1> USE DEF UploadInv
<1>1. /\ upload' \in [OpFile -> UploadRow] /\ opFile' \in [OpFile -> FileRow]
      /\ \A g \in OpFile : /\ upload'[g] = IF g = f THEN u ELSE upload[g]
                           /\ opFile'[g] = IF g = f THEN row ELSE opFile[g]
      /\ candidate' = candidate /\ chunks' = chunks /\ review' = review
  BY DEF UploadTypeOK, Reviews
<1>2. UploadTypeOK' BY <1>1 DEF UploadTypeOK
<1>3. opFile[f].binary # "none" BY DEF SecretStaysSecret
<1>4. SecretStaysSecret' BY <1>1, <1>3 DEF SecretStaysSecret
<1>5. UploadsAreKept' /\ ReviewsAreKnown' BY <1>1, BotStep
<1> QED BY <1>2, <1>4, <1>5

LEMMA ProcessKeeps ==
  ASSUME UploadInv, NEW f \in OpFile, process_operator_upload(f) PROVE UploadInv'
<1> USE DEF UploadInv
<1>1. /\ upload[f].pc = "queued" /\ UNCHANGED <<kbSession, album, uploadLog, Reviews>>
      /\ \/ opFile' = [opFile EXCEPT ![f].status = "failed"]
            /\ upload' = [upload EXCEPT ![f] = NoUpload]
         \/ opFile' = [opFile EXCEPT ![f].status = "pending"]
            /\ upload' = [upload EXCEPT ![f].pc = "sent"]
  BY DEF process_operator_upload, record_upload
<1>2. /\ opFile[f] \in FileRow /\ upload[f] \in UploadRow /\ uploadLog \in UploadLog
      /\ opFile \in [OpFile -> FileRow] /\ upload \in [OpFile -> UploadRow]
  BY DEF UploadTypeOK
<1>3. ~upload[f].new BY <1>1 DEF UploadsAreKept, KeptUpload
<1> DEFINE sent == [upload[f] EXCEPT !.pc = "sent"]
           row(status) == [opFile[f] EXCEPT !.status = status]
<1>4. sent \in UploadRow /\ ~sent.new /\ sent.secret = upload[f].secret
  BY <1>2, <1>3 DEF UploadRow
<1>5. \A status \in {"failed", "pending"} : /\ row(status) \in FileRow
                                            /\ row(status).binary = opFile[f].binary
  BY <1>2 DEF FileRow
<1>6. \/ opFile' = [opFile EXCEPT ![f] = row("failed")]
         /\ upload' = [upload EXCEPT ![f] = NoUpload]
      \/ opFile' = [opFile EXCEPT ![f] = row("pending")] /\ upload' = [upload EXCEPT ![f] = sent]
  BY <1>1, <1>2
<1> HIDE DEF sent, row
<1>7. \A a \in uploadLog'.added : a \in uploadLog.added BY <1>1
<1>8. /\ upload[f].pc # "idle" /\ uploadLog' \in UploadLog /\ uploadLog'.secret = uploadLog.secret
      /\ uploadLog'.unfinished = uploadLog.unfinished
  BY <1>1, <1>2
<1>9. CASE /\ opFile' = [opFile EXCEPT ![f] = row("failed")]
           /\ upload' = [upload EXCEPT ![f] = NoUpload]
  BY <1>1, <1>5, <1>7, <1>8, <1>9, UploadRows, BotMoves
<1>10. CASE opFile' = [opFile EXCEPT ![f] = row("pending")] /\ upload' = [upload EXCEPT ![f] = sent]
  BY <1>1, <1>4, <1>5, <1>7, <1>8, <1>10, BotMoves
<1> QED BY <1>6, <1>9, <1>10

LEMMA OutcomeKeeps ==
  ASSUME UploadInv, NEW f \in OpFile, RecordOutcome(f) PROVE UploadInv'
<1> USE DEF UploadInv
<1>0. /\ opFile[f] \in FileRow /\ upload[f] \in UploadRow /\ uploadLog \in UploadLog
      /\ opFile \in [OpFile -> FileRow] /\ upload \in [OpFile -> UploadRow]
  BY DEF UploadTypeOK
<1> DEFINE a == [file |-> f, candidate |-> upload[f].candidate]
<1>1. /\ upload[f].pc \in {"done", "refused"} /\ upload' = [upload EXCEPT ![f] = NoUpload]
      /\ UNCHANGED <<kbSession, album, Reviews>>
  BY DEF RecordOutcome
<1>2. \E row \in FileRow : row.binary = opFile[f].binary /\ opFile' = [opFile EXCEPT ![f] = row]
  <2>1. \/ opFile' = opFile
        \/ \E status \in {"ok", "failed"} : opFile' = [opFile EXCEPT ![f].status = status]
        \/ opFile' = [opFile EXCEPT ![f].status = opFile[f].status]
        \/ opFile' = [opFile EXCEPT ![f].status = "ok", ![f].candidate = upload[f].candidate]
    BY DEF RecordOutcome
  <2>2. CASE opFile' = opFile BY <1>0, <2>2
  <2>3. ASSUME NEW status \in {"ok", "failed"}, opFile' = [opFile EXCEPT ![f].status = status]
        PROVE  \E row \in FileRow : row.binary = opFile[f].binary
                                    /\ opFile' = [opFile EXCEPT ![f] = row]
    <3> DEFINE row == [opFile[f] EXCEPT !.status = status]
    <3>1. row \in FileRow /\ row.binary = opFile[f].binary BY <1>0 DEF FileRow
    <3>2. opFile' = [opFile EXCEPT ![f] = row] BY <1>0, <2>3
    <3> HIDE DEF row
    <3> QED BY <3>1, <3>2
  <2>4. CASE opFile' = [opFile EXCEPT ![f].status = opFile[f].status]
    <3>1. opFile' = opFile BY <1>0, <2>4 DEF FileRow
    <3> QED BY <1>0, <3>1
  <2>5. CASE opFile' = [opFile EXCEPT ![f].status = "ok", ![f].candidate = upload[f].candidate]
    <3> DEFINE row == [opFile[f] EXCEPT !.status = "ok", !.candidate = upload[f].candidate]
    <3>1. row \in FileRow /\ row.binary = opFile[f].binary BY <1>0 DEF FileRow, UploadRow
    <3>2. opFile' = [opFile EXCEPT ![f] = row] BY <1>0, <2>5
    <3> HIDE DEF row
    <3> QED BY <3>1, <3>2
  <2> QED BY <2>1, <2>2, <2>3, <2>4, <2>5
<1>3. /\ uploadLog' \in UploadLog /\ uploadLog'.secret = uploadLog.secret
      /\ uploadLog'.unfinished = uploadLog.unfinished
      /\ \A b \in uploadLog'.added : \/ b \in uploadLog.added
                                     \/ b = a /\ upload[f].pc = "done" /\ upload[f].new
  <2>1. \/ uploadLog' = uploadLog
        \/ /\ upload[f].pc = "done" /\ upload[f].new
           /\ uploadLog' = [uploadLog EXCEPT !.added = @ \cup {a}]
    BY DEF RecordOutcome
  <2>2. CASE uploadLog' = uploadLog BY <1>0, <2>2
  <2>3. CASE /\ upload[f].pc = "done" /\ upload[f].new
             /\ uploadLog' = [uploadLog EXCEPT !.added = @ \cup {a}]
    <3>1. upload[f].candidate \in Candidate BY <2>3 DEF UploadsAreKept, KeptUpload, Uploaded
    <3>2. a \in [file : OpFile, candidate : Candidate] BY <3>1
    <3> HIDE DEF a
    <3> QED BY <1>0, <2>3, <3>2 DEF UploadLog
  <2> QED BY <2>1, <2>2, <2>3
<1>4. \A b \in uploadLog'.added : b \in uploadLog.added \/ KeptAddition(b)'
  <2> SUFFICES ASSUME NEW b \in uploadLog'.added, b = a, upload[f].pc = "done", upload[f].new
               PROVE  KeptAddition(b)'
    BY <1>3
  <2>1. PICK c, secrecy : c = upload[f].candidate /\ secrecy = upload[f].secret
    OBVIOUS
  <2>2. Uploaded(c, secrecy) BY <2>1 DEF UploadsAreKept, KeptUpload
  <2>3. Uploaded(c, secrecy)' BY <1>1, <2>2 DEF Uploaded, Reviewed, Reviews
  <2>4. b.file = f /\ b.candidate = c /\ secrecy \in Secrecy BY <1>0, <2>1 DEF UploadRow
  <2>5. opFile[f].binary # "none" /\ (f \in uploadLog.secret => secrecy = "secret")
    BY <2>1 DEF SecretStaysSecret
  <2>6. opFile'[f].binary # "none" BY <1>0, <1>2, <2>5
  <2> QED BY <1>3, <2>3, <2>4, <2>5, <2>6 DEF KeptAddition
<1>5. upload[f].pc # "idle" BY <1>1
<1> HIDE DEF a
<1> QED BY <1>1, <1>2, <1>3, <1>4, <1>5, UploadRows, BotMoves

LEMMA RestartUploadsKeeps == ASSUME UploadInv, RestartUploads PROVE UploadInv'
<1> USE DEF UploadInv
<1>1. /\ upload \in [OpFile -> UploadRow] /\ album \in Album
      /\ UNCHANGED <<kbSession, opFile, uploadLog, Reviews>>
      /\ candidate' = candidate /\ chunks' = chunks /\ review' = review
  BY DEF UploadTypeOK, RestartUploads, Reviews
<1>2. /\ upload' \in [OpFile -> UploadRow]
      /\ \A f \in OpFile : upload'[f] = upload[f] \/ upload'[f] = NoUpload
  BY <1>1, UploadRows DEF RestartUploads
<1>3. album' \in Album /\ album'.items = album.items BY <1>1 DEF RestartUploads, Album
<1>4. UploadTypeOK' BY <1>1, <1>2, <1>3 DEF UploadTypeOK
<1>5. SecretStaysSecret'
  <2> SUFFICES ASSUME NEW f \in OpFile
               PROVE  /\ opFile[f].binary = "none" => /\ upload'[f].pc = "idle"
                                                      /\ album.items[f] = "no"
                                                      /\ f \notin uploadLog.secret
                      /\ f \in uploadLog.secret =>
                           /\ upload'[f].pc # "idle" => upload'[f].secret = "secret"
                           /\ album.items[f] # "open"
    BY <1>1, <1>3 DEF SecretStaysSecret
  <2>1. CASE upload'[f] = upload[f] BY <2>1 DEF SecretStaysSecret
  <2>2. CASE upload'[f] = NoUpload
    <3>1. upload'[f].pc = "idle" BY <2>2, UploadRows
    <3> QED BY <3>1 DEF SecretStaysSecret
  <2> QED BY <1>2, <2>1, <2>2
<1>6. UploadsAreKept' /\ ReviewsAreKnown'
  <2>1. \A f \in OpFile : upload'[f] = upload[f] \/ ~upload'[f].new BY <1>2, UploadRows
  <2> QED BY <1>1, <2>1, BotStep
<1> QED BY <1>4, <1>5, <1>6

\* A step of the upload of one file, in the api: what it makes is new, and no
\* review knows of it.
LEMMA ApiMoves ==
  ASSUME UploadInv, NEW f \in OpFile, NEW u \in UploadRow,
         upload[f].pc # "idle", u.secret = upload[f].secret,
         upload' = [upload EXCEPT ![f] = u],
         candidate' \in [Candidate -> CandidateRow],
         chunks' \in [Candidate -> {"none"} \cup Secrecy],
         \A c \in Candidate :
           \/ candidate'[c] = candidate[c] /\ chunks'[c] = chunks[c]
           \/ /\ candidate[c].status = "none" /\ candidate'[c].status = "approved",
         u.new => \/ u.pc = "refused"
                  \/ /\ u.pc = "done" /\ u.candidate \in Candidate
                     /\ candidate[u.candidate].status = "none"
                     /\ candidate'[u.candidate].status = "approved"
                     /\ chunks'[u.candidate] = u.secret,
         UNCHANGED <<kbSession, album, opFile, review, uploadLog>>
  PROVE  UploadInv'
<1> USE DEF UploadInv
<1>1. /\ upload' \in [OpFile -> UploadRow]
      /\ \A g \in OpFile : upload'[g] = IF g = f THEN u ELSE upload[g]
  BY DEF UploadTypeOK
<1>2. UploadTypeOK' BY <1>1 DEF UploadTypeOK
<1>3. SecretStaysSecret' BY <1>1 DEF SecretStaysSecret
<1>4. \A c \in Candidate : candidate[c].status = "none" => ~Reviewed(c)
  <2> SUFFICES ASSUME NEW c \in Candidate, candidate[c].status = "none",
                      NEW m \in Moderator, review[m].candidate = c PROVE FALSE
    BY DEF Reviewed
  <2>1. c # 0 BY CandidatesCount
  <2> QED BY <2>1 DEF ReviewsAreKnown
<1>5. \A c \in Candidate : (Reviewed(c)' <=> Reviewed(c)) BY DEF Reviewed
<1>6. KeptUpload(f)'
  <2>1. CASE ~u.new \/ u.pc = "refused" BY <1>1, <2>1 DEF KeptUpload
  <2>2. CASE u.new /\ u.pc # "refused"
    <3>1. u.pc = "done" /\ u.candidate \in Candidate /\ ~Reviewed(u.candidate)'
      BY <1>4, <1>5, <2>2
    <3>2. Uploaded(u.candidate, u.secret)' BY <2>2, <3>1 DEF Uploaded
    <3> QED BY <1>1, <3>1, <3>2 DEF KeptUpload, Uploaded, Reviewed
  <2> QED BY <2>1, <2>2
<1>7. UploadsAreKept'
  <2>1. \A g \in OpFile : upload'[g] = upload[g] \/ KeptUpload(g)' BY <1>1, <1>6
  <2>2. \A c \in Candidate :
          ~Reviewed(c) /\ candidate[c].status \in {"approved", "deleted"} =>
            /\ ~Reviewed(c)'
            /\ candidate'[c].status = candidate[c].status /\ chunks'[c] = chunks[c]
    BY <1>5
  <2> QED BY <2>1, <2>2, KeptStep
<1>8. ReviewsAreKnown'
  <2>1. ASSUME NEW m \in Moderator
        PROVE  /\ review[m].pc = "idle" <=> review[m].candidate = 0
               /\ review[m].pc # "idle" => candidate'[review[m].candidate].status # "none"
    <3>1. review[m].candidate # 0 => review[m].candidate \in Candidate
      BY UploadBounds DEF UploadTypeOK, ReviewRow, Candidate, CandidateOrNone
    <3> QED BY <3>1 DEF ReviewsAreKnown
  <2>2. ASSUME NEW c \in Candidate, chunks'[c] # "none", c \notin uploadLog.unfinished
        PROVE  ~Reviewed(c)' /\ candidate'[c].status = "approved"
    <3>1. CASE candidate'[c] = candidate[c] /\ chunks'[c] = chunks[c]
      BY <1>5, <2>2, <3>1 DEF ReviewsAreKnown
    <3>2. CASE candidate[c].status = "none" /\ candidate'[c].status = "approved"
      BY <1>4, <1>5, <3>2
    <3> QED BY <3>1, <3>2
  <2> QED BY <2>1, <2>2 DEF ReviewsAreKnown
<1> QED BY <1>2, <1>3, <1>7, <1>8

LEMMA CreateKeeps ==
  ASSUME UploadInv, NEW f \in OpFile, upload[f].pc \in {"sent", "transcribe"}, CreateApproved(f),
         UNCHANGED <<kbSession, album, opFile, review, uploadLog>>
  PROVE  UploadInv'
<1> USE DEF UploadInv
<1>1. /\ upload[f] \in UploadRow /\ upload \in [OpFile -> UploadRow] /\ opFile[f] \in FileRow
      /\ candidate \in [Candidate -> CandidateRow]
      /\ chunks \in [Candidate -> {"none"} \cup Secrecy]
      /\ upload[f].pc # "idle" /\ ~upload[f].new
  BY DEF UploadTypeOK, UploadsAreKept, KeptUpload
<1>2. CASE upload' = [upload EXCEPT ![f].pc = "refused"] /\ UNCHANGED <<candidate, chunks>>
  <2> DEFINE u == [upload[f] EXCEPT !.pc = "refused"]
  <2>1. u \in UploadRow /\ u.secret = upload[f].secret /\ u.pc = "refused" BY <1>1 DEF UploadRow
  <2>2. upload' = [upload EXCEPT ![f] = u] BY <1>1, <1>2
  <2> HIDE DEF u
  <2> QED BY <1>1, <1>2, <2>1, <2>2, ApiMoves
<1>3. ASSUME NEW c \in FreshCandidate, NEW indexed \in BOOLEAN,
             create_approved_operator_upload(c, f),
             chunks' = IF indexed THEN [chunks EXCEPT ![c] = upload[f].secret] ELSE chunks,
             upload' = [upload EXCEPT ![f].pc = IF indexed THEN "done" ELSE "refused",
                                      ![f].candidate = c, ![f].new = TRUE]
      PROVE  UploadInv'
  <2> DEFINE u == [upload[f] EXCEPT !.pc = IF indexed THEN "done" ELSE "refused",
                                    !.candidate = c, !.new = TRUE]
             row == [status |-> "approved", binary |-> opFile[f].binary]
  <2>1. c \in Candidate /\ candidate[c].status = "none" /\ c \in CandidateOrNone
    BY CandidatesCount DEF FreshCandidate
  <2>2. /\ u \in UploadRow /\ u.secret = upload[f].secret /\ u.candidate = c
        /\ u.pc = IF indexed THEN "done" ELSE "refused"
    BY <1>1, <2>1 DEF UploadRow
  <2>3. upload' = [upload EXCEPT ![f] = u] BY <1>1, <1>3
  <2>4. row \in CandidateRow /\ row.status = "approved" BY <1>1 DEF FileRow, CandidateRow
  <2>5. candidate' = [candidate EXCEPT ![c] = row] BY <1>3 DEF create_approved_operator_upload
  <2> HIDE DEF u, row
  <2>6. /\ candidate' \in [Candidate -> CandidateRow]
        /\ \A d \in Candidate : candidate'[d] = IF d = c THEN row ELSE candidate[d]
    BY <1>1, <2>1, <2>4, <2>5
  <2>7. upload[f].secret \in Secrecy BY <1>1 DEF UploadRow
  <2>8. /\ chunks' \in [Candidate -> {"none"} \cup Secrecy]
        /\ \A d \in Candidate : d # c => chunks'[d] = chunks[d]
        /\ indexed => chunks'[c] = upload[f].secret
    BY <1>1, <1>3, <2>1, <2>7
  <2>9. \A d \in Candidate :
          \/ candidate'[d] = candidate[d] /\ chunks'[d] = chunks[d]
          \/ candidate[d].status = "none" /\ candidate'[d].status = "approved"
    BY <2>1, <2>4, <2>6, <2>8
  <2>10. \/ u.pc = "refused"
         \/ /\ u.pc = "done" /\ u.candidate \in Candidate
            /\ candidate[u.candidate].status = "none"
            /\ candidate'[u.candidate].status = "approved"
            /\ chunks'[u.candidate] = u.secret
    BY <2>1, <2>2, <2>4, <2>6, <2>8
  <2> QED BY <1>1, <2>2, <2>3, <2>6, <2>8, <2>9, <2>10, ApiMoves
<1> QED BY <1>2, <1>3 DEF CreateApproved

LEMMA ApiKeeps ==
  ASSUME UploadInv, NEW f \in OpFile, perform_operator_upload(f) \/ Transcribed(f)
  PROVE  UploadInv'
<1> USE DEF UploadInv
<1>1. /\ upload[f] \in UploadRow /\ upload \in [OpFile -> UploadRow]
      /\ candidate \in [Candidate -> CandidateRow]
      /\ chunks \in [Candidate -> {"none"} \cup Secrecy]
  BY DEF UploadTypeOK
<1>2. CASE Transcribed(f) BY <1>2, CreateKeeps DEF Transcribed
<1>3. CASE perform_operator_upload(f) /\ CreateApproved(f)
  BY <1>3, CreateKeeps DEF perform_operator_upload
<1>4. CASE perform_operator_upload(f) /\ ~CreateApproved(f)
  <2>1. /\ upload[f].pc = "sent" /\ UNCHANGED <<kbSession, album, opFile, review, uploadLog>>
        /\ UNCHANGED <<candidate, chunks>>
    BY <1>4 DEF perform_operator_upload
  <2>2. ~upload[f].new /\ upload[f].pc # "idle"
    BY <2>1 DEF UploadsAreKept, KeptUpload
  <2>3. \E u \in UploadRow : ~u.new /\ u.secret = upload[f].secret /\ upload' = [upload EXCEPT ![f] = u]
    <3>1. CASE \E pc \in {"refused", "transcribe"} : upload' = [upload EXCEPT ![f].pc = pc]
      <4>1. PICK pc \in {"refused", "transcribe"} : upload' = [upload EXCEPT ![f].pc = pc]
        BY <3>1
      <4> DEFINE u == [upload[f] EXCEPT !.pc = pc]
      <4>2. u \in UploadRow /\ ~u.new /\ u.secret = upload[f].secret BY <1>1, <2>2 DEF UploadRow
      <4>3. upload' = [upload EXCEPT ![f] = u] BY <1>1, <4>1
      <4> HIDE DEF u
      <4> QED BY <4>2, <4>3
    <3>2. CASE \E c \in CandidateOrNone :
                 upload' = [upload EXCEPT ![f].pc = "done", ![f].candidate = c]
      <4>1. PICK c \in CandidateOrNone :
              upload' = [upload EXCEPT ![f].pc = "done", ![f].candidate = c]
        BY <3>2
      <4> DEFINE u == [upload[f] EXCEPT !.pc = "done", !.candidate = c]
      <4>2. u \in UploadRow /\ ~u.new /\ u.secret = upload[f].secret BY <1>1, <2>2 DEF UploadRow
      <4>3. upload' = [upload EXCEPT ![f] = u] BY <1>1, <4>1
      <4> HIDE DEF u
      <4> QED BY <4>2, <4>3
    <3>3. \A twins \in SUBSET Candidate : twins # {} =>
            (CHOOSE c \in twins : \A d \in twins : c <= d) \in CandidateOrNone
      <4> TAKE twins \in SUBSET Candidate
      <4> HAVE twins # {}
      <4> QED BY SmallestTwin, CandidatesCount
    <3>4. CASE opFile[f].status = "deleted" BY <1>4, <3>1, <3>4 DEF perform_operator_upload
    <3>5. CASE opFile[f].status # "deleted" /\ Twins(opFile[f].binary) # {}
      <4>1. Twins(opFile[f].binary) \in SUBSET Candidate BY DEF Twins
      <4>2. upload' = [upload EXCEPT ![f].pc = "done", ![f].candidate =
                         CHOOSE c \in Twins(opFile[f].binary) :
                           \A d \in Twins(opFile[f].binary) : c <= d]
        BY <1>4, <3>5 DEF perform_operator_upload
      <4> QED BY <3>2, <3>3, <3>5, <4>1, <4>2
    <3>6. CASE opFile[f].status # "deleted" /\ Twins(opFile[f].binary) = {}
      BY <1>4, <3>1, <3>6 DEF perform_operator_upload
    <3> QED BY <3>4, <3>5, <3>6
  <2> QED BY <1>1, <2>1, <2>2, <2>3, ApiMoves
<1> QED BY <1>2, <1>3, <1>4

LEMMA DeleteKeeps == ASSUME UploadInv, NEW f \in OpFile, delete_file(f) PROVE UploadInv'
<1> USE DEF UploadInv
<1> DEFINE row == [opFile[f] EXCEPT !.status = "deleted"]
<1>0. PICK c : c = opFile[f].candidate
  OBVIOUS
<1>1. /\ opFile[f] \in FileRow /\ opFile \in [OpFile -> FileRow]
      /\ candidate \in [Candidate -> CandidateRow]
      /\ chunks \in [Candidate -> {"none"} \cup Secrecy]
      /\ c \in CandidateOrNone
  BY <1>0 DEF UploadTypeOK, FileRow
<1>2. UNCHANGED <<kbSession, album, upload, review, uploadLog>> BY DEF delete_file
<1>3. row \in FileRow /\ row.binary = opFile[f].binary BY <1>1 DEF FileRow
<1>4. opFile' = [opFile EXCEPT ![f] = row] BY <1>1 DEF delete_file
<1> HIDE DEF row
<1>5. /\ opFile' \in [OpFile -> FileRow]
      /\ \A g \in OpFile : opFile'[g].binary = opFile[g].binary
  BY <1>1, <1>3, <1>4
<1>6. /\ candidate' \in [Candidate -> CandidateRow]
      /\ chunks' \in [Candidate -> {"none"} \cup Secrecy]
      /\ \A d \in Candidate : \/ candidate'[d] = candidate[d] /\ chunks'[d] = chunks[d]
                              \/ candidate'[d].status = "deleted" /\ chunks'[d] = "none"
  <2>1. CASE c = 0 BY <1>0, <1>1, <2>1 DEF delete_file
  <2>2. CASE c # 0
    <3>1. c \in Candidate BY <1>1, <2>2, UploadBounds DEF Candidate, CandidateOrNone
    <3> DEFINE gone == [candidate[c] EXCEPT !.status = "deleted"]
    <3>2. gone \in CandidateRow /\ gone.status = "deleted" BY <1>1, <3>1 DEF CandidateRow
    <3>3. candidate' = [candidate EXCEPT ![c] = gone] /\ chunks' = [chunks EXCEPT ![c] = "none"]
      BY <1>0, <1>1, <2>2, <3>1 DEF delete_file
    <3> HIDE DEF gone
    <3> QED BY <1>1, <3>1, <3>2, <3>3
  <2> QED BY <2>1, <2>2
<1>7. UploadTypeOK' BY <1>2, <1>5, <1>6 DEF UploadTypeOK
<1>8. SecretStaysSecret' BY <1>2, <1>5 DEF SecretStaysSecret
<1>9. \A d \in Candidate : (Reviewed(d)' <=> Reviewed(d)) BY <1>2 DEF Reviewed
<1>10. UploadsAreKept' BY <1>2, <1>5, <1>6, <1>9, KeptStep
<1>11. ReviewsAreKnown'
  <2>1. ASSUME NEW m \in Moderator
        PROVE  /\ review[m].pc = "idle" <=> review[m].candidate = 0
               /\ review[m].pc # "idle" => candidate'[review[m].candidate].status # "none"
    <3>1. review[m].candidate # 0 => review[m].candidate \in Candidate
      BY UploadBounds DEF UploadTypeOK, ReviewRow, Candidate, CandidateOrNone
    <3> QED BY <1>6, <3>1 DEF ReviewsAreKnown
  <2>2. ASSUME NEW d \in Candidate, chunks'[d] # "none", d \notin uploadLog.unfinished
        PROVE  ~Reviewed(d)' /\ candidate'[d].status = "approved"
    BY <1>6, <1>9, <2>2 DEF ReviewsAreKnown
  <2> QED BY <1>2, <2>1, <2>2 DEF ReviewsAreKnown
<1> QED BY <1>7, <1>8, <1>10, <1>11

\* A step of moderation: reviews are of candidates that are pending or already
\* under review, and leave the chunks of finished decisions alone.
LEMMA ModerationMoves ==
  ASSUME UploadInv, UNCHANGED <<kbSession, album, opFile, upload>>,
         review' \in [Moderator -> ReviewRow], candidate' \in [Candidate -> CandidateRow],
         chunks' \in [Candidate -> {"none"} \cup Secrecy],
         uploadLog' \in UploadLog, uploadLog'.secret = uploadLog.secret,
         uploadLog'.added = uploadLog.added,
         \A c \in Candidate :
           ~Reviewed(c) /\ candidate[c].status \in {"approved", "deleted"} =>
             ~Reviewed(c)' /\ candidate'[c].status = candidate[c].status /\ chunks'[c] = chunks[c],
         ReviewsAreKnown'
  PROVE  UploadInv'
<1> USE DEF UploadInv
<1>1. UploadTypeOK' BY DEF UploadTypeOK
<1>2. SecretStaysSecret' BY DEF SecretStaysSecret
<1>3. UploadsAreKept' BY KeptStep
<1> QED BY <1>1, <1>2, <1>3

LEMMA UnderReview ==
  ASSUME UploadInv, NEW m \in Moderator
  PROVE  /\ review[m] \in ReviewRow
         /\ review[m].pc = "idle" <=> review[m].candidate = 0
         /\ review[m].candidate # 0 => review[m].candidate \in Candidate
         /\ review[m].pc # "idle" => /\ review[m].candidate \in Candidate
                                     /\ candidate[review[m].candidate].status # "none"
<1>1. review[m] \in ReviewRow BY DEF UploadInv, UploadTypeOK
<1>2. review[m].candidate # 0 => review[m].candidate \in Candidate
  BY <1>1, UploadBounds DEF ReviewRow, CandidateOrNone, Candidate
<1> QED BY <1>1, <1>2 DEF UploadInv, ReviewsAreKnown

\* A step of one review that decides nothing yet.
ReviewMove(m, r) ==
  /\ review' = [review EXCEPT ![m] = r]
  /\ r.pc = "idle" <=> r.candidate = 0
  /\ \/ r.candidate = 0 \/ r.candidate = review[m].candidate
     \/ r.candidate \in Candidate /\ candidate[r.candidate].status = "pending"
  /\ UNCHANGED <<kbSession, album, opFile, upload, candidate>>
  /\ chunks' \in [Candidate -> {"none"} \cup Secrecy]
  /\ uploadLog' \in UploadLog /\ uploadLog'.secret = uploadLog.secret
  /\ uploadLog'.added = uploadLog.added
  /\ uploadLog.unfinished \subseteq uploadLog'.unfinished
  /\ \A c \in Candidate : chunks'[c] # chunks[c] => Reviewed(c) /\ c \in uploadLog'.unfinished

LEMMA ReviewMoves ==
  ASSUME UploadInv, NEW m \in Moderator, NEW r \in ReviewRow, ReviewMove(m, r)
  PROVE  UploadInv'
<1> USE DEF UploadInv, ReviewMove
<1>1. /\ review' \in [Moderator -> ReviewRow] /\ candidate \in [Candidate -> CandidateRow]
      /\ \A n \in Moderator : review'[n] = IF n = m THEN r ELSE review[n]
  BY DEF UploadTypeOK
<1>2. \A c \in Candidate : Reviewed(c)' => Reviewed(c) \/ candidate[c].status = "pending"
  <2> SUFFICES ASSUME NEW c \in Candidate, NEW n \in Moderator, review'[n].candidate = c
               PROVE  Reviewed(c) \/ candidate[c].status = "pending"
    BY DEF Reviewed
  <2>1. c # 0 BY CandidatesCount
  <2> QED BY <1>1, <2>1 DEF Reviewed
<1>3. \A c \in Candidate :
        ~Reviewed(c) /\ candidate[c].status \in {"approved", "deleted"} =>
          ~Reviewed(c)' /\ candidate'[c].status = candidate[c].status /\ chunks'[c] = chunks[c]
  BY <1>2
<1>4. ReviewsAreKnown'
  <2>1. ASSUME NEW n \in Moderator
        PROVE  /\ review'[n].pc = "idle" <=> review'[n].candidate = 0
               /\ review'[n].pc # "idle" => candidate[review'[n].candidate].status # "none"
    <3>1. CASE n # m BY <1>1, <3>1, UnderReview
    <3>2. CASE n = m /\ r.candidate = 0 BY <1>1, <3>2
    <3>3. CASE n = m /\ r.candidate # 0 /\ r.candidate = review[m].candidate
      BY <1>1, <3>3, UnderReview
    <3>4. CASE n = m /\ r.candidate # 0 /\ candidate[r.candidate].status = "pending"
      BY <1>1, <3>4
    <3> QED BY <3>1, <3>2, <3>3, <3>4
  <2>2. ASSUME NEW c \in Candidate, chunks'[c] # "none", c \notin uploadLog'.unfinished
        PROVE  ~Reviewed(c)' /\ candidate[c].status = "approved"
    <3>1. chunks'[c] = chunks[c] /\ c \notin uploadLog.unfinished BY <2>2
    <3>2. ~Reviewed(c) /\ candidate[c].status = "approved"
      BY <2>2, <3>1 DEF ReviewsAreKnown
    <3> QED BY <1>2, <3>2
  <2> QED BY <2>1, <2>2 DEF ReviewsAreKnown
<1> QED BY <1>1, <1>3, <1>4, ModerationMoves

LEMMA CreatePendingKeeps == ASSUME UploadInv, create_pending PROVE UploadInv'
<1> USE DEF UploadInv
<1>1. PICK c \in FreshCandidate : candidate' = [candidate EXCEPT ![c].status = "pending"]
  BY DEF create_pending
<1>2. /\ UNCHANGED <<kbSession, album, opFile, upload, chunks, review, uploadLog>>
      /\ c \in Candidate /\ candidate[c].status = "none"
      /\ candidate \in [Candidate -> CandidateRow] /\ review \in [Moderator -> ReviewRow]
      /\ chunks \in [Candidate -> {"none"} \cup Secrecy] /\ uploadLog \in UploadLog
  BY DEF create_pending, FreshCandidate, UploadTypeOK
<1> DEFINE row == [candidate[c] EXCEPT !.status = "pending"]
<1>3. row \in CandidateRow /\ row.status = "pending" BY <1>2 DEF CandidateRow
<1>4. candidate' = [candidate EXCEPT ![c] = row] BY <1>1, <1>2
<1> HIDE DEF row
<1>5. /\ candidate' \in [Candidate -> CandidateRow]
      /\ \A d \in Candidate : candidate'[d] = IF d = c THEN row ELSE candidate[d]
  BY <1>2, <1>3, <1>4
<1>6. \A d \in Candidate : (Reviewed(d)' <=> Reviewed(d)) BY <1>2 DEF Reviewed
<1>7. ReviewsAreKnown'
  <2>1. ASSUME NEW n \in Moderator
        PROVE  /\ review[n].pc = "idle" <=> review[n].candidate = 0
               /\ review[n].pc # "idle" => candidate'[review[n].candidate].status # "none"
    BY <1>3, <1>5, UnderReview
  <2>2. ASSUME NEW d \in Candidate, chunks[d] # "none", d \notin uploadLog.unfinished
        PROVE  ~Reviewed(d)' /\ candidate'[d].status = "approved"
    <3>1. ~Reviewed(d) /\ candidate[d].status = "approved" BY <2>2 DEF ReviewsAreKnown
    <3> QED BY <1>2, <1>5, <1>6, <3>1
  <2> QED BY <1>2, <2>1, <2>2 DEF ReviewsAreKnown
<1>8. \A d \in Candidate :
        ~Reviewed(d) /\ candidate[d].status \in {"approved", "deleted"} =>
          ~Reviewed(d)' /\ candidate'[d].status = candidate[d].status /\ chunks'[d] = chunks[d]
  BY <1>2, <1>5, <1>6
<1> QED BY <1>2, <1>5, <1>7, <1>8, ModerationMoves

LEMMA DecideKeeps ==
  ASSUME UploadInv, NEW m \in Moderator, NEW c \in Candidate, NEW approves \in BOOLEAN,
         DecideOn(m, c, approves)
  PROVE  UploadInv'
<1> USE DEF UploadInv
<1> DEFINE r == [pc |-> IF approves THEN "index" ELSE "write", candidate |-> c,
                 approves |-> approves]
<1>1. /\ review' = [review EXCEPT ![m] = r] /\ candidate[c].status = "pending"
      /\ UNCHANGED <<kbSession, album, opFile, upload, candidate, chunks, uploadLog>>
  BY DEF DecideOn
<1>2. r \in ReviewRow /\ r.pc # "idle" /\ r.candidate = c BY CandidatesCount DEF ReviewRow
<1>3. c # 0 /\ chunks \in [Candidate -> {"none"} \cup Secrecy] /\ uploadLog \in UploadLog
  BY CandidatesCount DEF UploadTypeOK
<1> HIDE DEF r
<1>4. /\ chunks' = chunks /\ uploadLog' = uploadLog
      /\ UNCHANGED <<kbSession, album, opFile, upload, candidate>>
  BY <1>1
<1>5. /\ r.pc = "idle" <=> r.candidate = 0
      /\ r.candidate \in Candidate /\ candidate[r.candidate].status = "pending"
  BY <1>1, <1>2, <1>3
<1>6. review' = [review EXCEPT ![m] = r] BY <1>1
<1>7. ReviewMove(m, r) BY <1>3, <1>4, <1>5, <1>6 DEF ReviewMove
<1> QED BY <1>2, <1>7, ReviewMoves

LEMMA IndexKeeps == ASSUME UploadInv, NEW m \in Moderator, IndexApproved(m) PROVE UploadInv'
<1> USE DEF UploadInv
<1>0. PICK c : c = review[m].candidate
  OBVIOUS
<1> DEFINE r == [review[m] EXCEPT !.pc = "mark"]
<1>1. /\ review[m].pc = "index" /\ chunks' = [chunks EXCEPT ![c] = "open"]
      /\ uploadLog' = [uploadLog EXCEPT !.unfinished = @ \cup {c}]
      /\ UNCHANGED <<kbSession, album, opFile, upload, candidate>>
  BY <1>0 DEF IndexApproved
<1>2. /\ chunks \in [Candidate -> {"none"} \cup Secrecy] /\ uploadLog \in UploadLog
      /\ review \in [Moderator -> ReviewRow]
  BY DEF UploadTypeOK
<1>3. c \in Candidate /\ c # 0 /\ Reviewed(c) /\ review[m] \in ReviewRow
  BY <1>0, <1>1, UnderReview, CandidatesCount DEF Reviewed
<1>4. r \in ReviewRow /\ r.pc = "mark" /\ r.candidate = c BY <1>0, <1>3 DEF ReviewRow
<1>5. review' = [review EXCEPT ![m] = r] BY <1>2 DEF IndexApproved
<1> HIDE DEF r
<1>6. /\ chunks' \in [Candidate -> {"none"} \cup Secrecy]
      /\ \A d \in Candidate : d # c => chunks'[d] = chunks[d]
  BY <1>1, <1>2, <1>3 DEF Secrecy
<1>7. /\ uploadLog' \in UploadLog /\ uploadLog'.unfinished = uploadLog.unfinished \cup {c}
      /\ uploadLog'.secret = uploadLog.secret /\ uploadLog'.added = uploadLog.added
  BY <1>1, <1>2, <1>3 DEF UploadLog
<1>8. /\ \A d \in Candidate : \/ chunks'[d] = chunks[d]
                              \/ Reviewed(d) /\ d \in uploadLog'.unfinished
      /\ uploadLog.unfinished \subseteq uploadLog'.unfinished
  BY <1>3, <1>6, <1>7
<1>9. (r.pc = "idle" <=> r.candidate = 0) /\ r.candidate = review[m].candidate
  BY <1>0, <1>3, <1>4
<1>10. ReviewMove(m, r) BY <1>1, <1>4, <1>5, <1>6, <1>7, <1>8, <1>9 DEF ReviewMove
<1> QED BY <1>4, <1>10, ReviewMoves

LEMMA MarkKeeps ==
  ASSUME UploadInv, NEW m \in Moderator, mark_approved(m) \/ ReviewStops(m) PROVE UploadInv'
<1> USE DEF UploadInv
<1>1. /\ chunks \in [Candidate -> {"none"} \cup Secrecy] /\ uploadLog \in UploadLog
      /\ review \in [Moderator -> ReviewRow] /\ review[m] \in ReviewRow
      /\ UNCHANGED <<kbSession, album, opFile, upload, candidate, chunks, uploadLog>>
      /\ review[m].pc # "idle"
  BY UnderReview DEF UploadTypeOK, mark_approved, ReviewStops
<1>4. review[m].candidate # 0 BY <1>1, UnderReview
<1>5. /\ chunks' \in [Candidate -> {"none"} \cup Secrecy] /\ uploadLog' \in UploadLog
      /\ \A d \in Candidate : chunks'[d] = chunks[d]
      /\ uploadLog.unfinished \subseteq uploadLog'.unfinished
      /\ uploadLog'.secret = uploadLog.secret /\ uploadLog'.added = uploadLog.added
      /\ UNCHANGED <<kbSession, album, opFile, upload, candidate>>
  BY <1>1
<1>2. CASE review' = [review EXCEPT ![m].pc = "write"]
  <2> DEFINE r == [review[m] EXCEPT !.pc = "write"]
  <2>1. r \in ReviewRow /\ r.pc = "write" /\ r.candidate = review[m].candidate
    BY <1>1 DEF ReviewRow
  <2>2. review' = [review EXCEPT ![m] = r] BY <1>1, <1>2
  <2> HIDE DEF r
  <2>3. (r.pc = "idle" <=> r.candidate = 0) BY <1>4, <2>1
  <2>4. ReviewMove(m, r) BY <1>5, <2>1, <2>2, <2>3 DEF ReviewMove
  <2> QED BY <2>1, <2>4, ReviewMoves
<1>3. CASE review' = [review EXCEPT ![m] = NoReview]
  <2>1. NoReview \in ReviewRow /\ (NoReview.pc = "idle" <=> NoReview.candidate = 0)
        /\ NoReview.candidate = 0
    BY UploadRows
  <2>2. ReviewMove(m, NoReview) BY <1>3, <1>5, <2>1 DEF ReviewMove
  <2> QED BY <2>1, <2>2, ReviewMoves
<1> QED BY <1>2, <1>3 DEF mark_approved, ReviewStops

LEMMA VerdictKeeps == ASSUME UploadInv, NEW m \in Moderator, WriteVerdict(m) PROVE UploadInv'
<1> USE DEF UploadInv
<1>0. PICK c : c = review[m].candidate
  OBVIOUS
<1>1. PICK verdict \in {"approved", "rejected"} :
        /\ candidate' = [candidate EXCEPT ![c].status = verdict]
        /\ verdict = IF review[m].approves THEN "approved" ELSE "rejected"
  BY <1>0 DEF WriteVerdict
<1>2. PICK unfinished : /\ uploadLog' = [uploadLog EXCEPT !.unfinished = unfinished]
                        /\ \/ unfinished = uploadLog.unfinished
                           \/ /\ verdict = "approved" /\ ~Contested(m)
                              /\ unfinished = uploadLog.unfinished \ {c}
  BY <1>0, <1>1 DEF WriteVerdict
<1>3. /\ chunks \in [Candidate -> {"none"} \cup Secrecy] /\ uploadLog \in UploadLog
      /\ review \in [Moderator -> ReviewRow] /\ candidate \in [Candidate -> CandidateRow]
      /\ review[m].pc = "write" /\ review' = [review EXCEPT ![m] = NoReview]
      /\ UNCHANGED <<kbSession, album, opFile, upload, chunks>>
  BY DEF UploadTypeOK, WriteVerdict
<1>4. c \in Candidate /\ c # 0 /\ Reviewed(c)
  BY <1>0, <1>3, UnderReview, CandidatesCount DEF Reviewed
<1> DEFINE row == [candidate[c] EXCEPT !.status = verdict]
<1>5. row \in CandidateRow /\ row.status = verdict BY <1>3, <1>4 DEF CandidateRow
<1>6. candidate' = [candidate EXCEPT ![c] = row] BY <1>1, <1>3
<1> HIDE DEF row
<1>7. /\ candidate' \in [Candidate -> CandidateRow]
      /\ \A d \in Candidate : candidate'[d] = IF d = c THEN row ELSE candidate[d]
  BY <1>3, <1>5, <1>6
<1>8. /\ uploadLog' \in UploadLog /\ uploadLog'.unfinished = unfinished
      /\ uploadLog'.secret = uploadLog.secret /\ uploadLog'.added = uploadLog.added
  BY <1>2, <1>3 DEF UploadLog
<1>9. /\ review' \in [Moderator -> ReviewRow]
      /\ \A n \in Moderator : review'[n] = IF n = m THEN NoReview ELSE review[n]
  BY <1>3, UploadRows
<1>10. \A d \in Candidate : Reviewed(d)' => Reviewed(d)
  <2> SUFFICES ASSUME NEW d \in Candidate, NEW n \in Moderator, review'[n].candidate = d
               PROVE  Reviewed(d)
    BY DEF Reviewed
  <2>1. d # 0 BY CandidatesCount
  <2> QED BY <1>9, <2>1, UploadRows DEF Reviewed
<1>11. ReviewsAreKnown'
  <2>1. ASSUME NEW n \in Moderator
        PROVE  /\ review'[n].pc = "idle" <=> review'[n].candidate = 0
               /\ review'[n].pc # "idle" => candidate'[review'[n].candidate].status # "none"
    <3>1. CASE n = m BY <1>9, <3>1, UploadRows
    <3>2. CASE n # m
      <4>1. review'[n] = review[n] BY <1>9, <3>2
      <4>2. review[n].pc # "idle" => candidate'[review[n].candidate].status # "none"
        BY <1>5, <1>7, UnderReview
      <4> QED BY <4>1, <4>2, UnderReview
    <3> QED BY <3>1, <3>2
  <2>2. ASSUME NEW d \in Candidate, chunks[d] # "none", d \notin unfinished
        PROVE  ~Reviewed(d)' /\ candidate'[d].status = "approved"
    <3>1. CASE d \notin uploadLog.unfinished
      <4>1. ~Reviewed(d) /\ candidate[d].status = "approved" BY <2>2, <3>1 DEF ReviewsAreKnown
      <4> QED BY <1>4, <1>7, <1>10, <4>1
    <3>2. CASE d \in uploadLog.unfinished
      <4>1. d = c /\ verdict = "approved" /\ ~Contested(m) BY <1>2, <2>2, <3>2
      <4>2. ~Reviewed(c)'
        BY <1>0, <1>4, <1>9, <4>1, UploadRows, ZenonT(30) DEF Contested, Reviewed
      <4> QED BY <1>5, <1>7, <4>1, <4>2 DEF Reviewed
    <3> QED BY <3>1, <3>2
  <2> QED BY <1>3, <1>8, <2>1, <2>2 DEF ReviewsAreKnown
<1>12. \A d \in Candidate :
         ~Reviewed(d) /\ candidate[d].status \in {"approved", "deleted"} =>
           ~Reviewed(d)' /\ candidate'[d].status = candidate[d].status /\ chunks'[d] = chunks[d]
  BY <1>3, <1>4, <1>7, <1>10
<1> QED BY <1>3, <1>7, <1>8, <1>9, <1>11, <1>12, ModerationMoves

\* A step that changes at most the session.
LEMMA SessionKeeps ==
  ASSUME UploadInv, kbSession' \in {"none"} \cup Secrecy,
         UNCHANGED <<album, opFile, upload, uploadLog, Reviews>>
  PROVE  UploadInv'
<1>1. candidate' = candidate /\ chunks' = chunks /\ review' = review BY DEF Reviews
<1>2. UploadTypeOK' BY <1>1 DEF UploadInv, UploadTypeOK
<1>3. SecretStaysSecret' BY DEF UploadInv, SecretStaysSecret
<1>4. UploadsAreKept' /\ ReviewsAreKnown' BY BotStep
<1> QED BY <1>2, <1>3, <1>4 DEF UploadInv

LEMMA UploadsMove == ASSUME UploadInv, UploadNext PROVE UploadInv'
<1>1. CASE EndSession \/ \E s \in Secrecy : OpenSession(s)
  BY <1>1, SessionKeeps DEF EndSession, OpenSession
<1>2. CASE flush_media_group BY <1>2, FlushKeeps
<1>3. CASE RestartUploads BY <1>3, RestartUploadsKeeps
<1>4. CASE create_pending BY <1>4, CreatePendingKeeps
<1>5. ASSUME NEW f \in OpFile, NEW b \in Binary, NEW s \in Secrecy, NEW inAlbum \in BOOLEAN,
             SendInSession(f, b, s, inAlbum)
      PROVE  UploadInv'
  BY <1>5, SendKeeps DEF SendInSession
<1>6. ASSUME NEW f \in OpFile, NEW b \in Binary, SendOrphan(f, b) PROVE UploadInv'
  <2>1. /\ opFile[f].binary = "none" /\ opFile' = [opFile EXCEPT ![f].binary = b]
        /\ Accept(f, "open", TRUE) /\ UNCHANGED <<kbSession, uploadLog, Reviews>>
        /\ UNCHANGED Reviews /\ kbSession' = "none" /\ uploadLog' = uploadLog
    BY <1>6 DEF SendOrphan
  <2>2. "open" \in Secrecy /\ TRUE \in BOOLEAN BY DEF Secrecy
  <2> QED BY <2>1, <2>2, SendKeeps
<1>7. ASSUME NEW f \in OpFile,
             \/ process_operator_upload(f) \/ perform_operator_upload(f)
             \/ Transcribed(f) \/ RecordOutcome(f) \/ delete_file(f)
      PROVE  UploadInv'
  BY <1>7, ProcessKeeps, ApiKeeps, OutcomeKeeps, DeleteKeeps
<1>8. ASSUME NEW m \in Moderator,
             \/ \E c \in Candidate, a \in BOOLEAN : DecideOn(m, c, a)
             \/ IndexApproved(m) \/ mark_approved(m) \/ WriteVerdict(m) \/ ReviewStops(m)
      PROVE  UploadInv'
  BY <1>8, DecideKeeps, IndexKeeps, MarkKeeps, VerdictKeeps
<1> QED BY <1>1, <1>2, <1>3, <1>4, <1>5, <1>6, <1>7, <1>8 DEF UploadNext, UploadStep

\* Files of the knowledge base keep their secrecy through album, session and
\* upload; a candidate the bot was told is new needs no moderator and has its
\* chunks until the file is deleted; and reviews are of candidates that exist.
THEOREM UploadInvariant == UploadSpec => []UploadInv
<1>1. ASSUME UploadInv, UNCHANGED uploadVars PROVE UploadInv'
  BY <1>1, SessionKeeps DEF uploadVars, Reviews, UploadInv, UploadTypeOK
<1> QED BY <1>1, InitUploads, UploadsMove, PTL DEF UploadSpec

\* What the operator is told was added is in the index with the secrecy it was
\* sent with, and a rejected text is there only when its approval was interrupted
\* or contested: api/app/knowledge and bot_gateway/app/operator_files, however
\* uploads, deletions and reviews interleave.
THEOREM IndexFollows == UploadSpec => []IndexFollowsDecisions
<1>1. ASSUME UploadInv PROVE IndexFollowsDecisions
  <2> USE <1>1 DEF UploadInv
  <2>1. ASSUME NEW a \in uploadLog.added, candidate[a.candidate].status # "deleted"
        PROVE  /\ chunks[a.candidate] # "none"
               /\ a.file \in uploadLog.secret => chunks[a.candidate] = "secret"
    <3>1. PICK secrecy \in Secrecy : /\ Uploaded(a.candidate, secrecy)
                                     /\ a.file \in uploadLog.secret => secrecy = "secret"
      BY DEF UploadsAreKept, KeptAddition
    <3> QED BY <2>1, <3>1 DEF Uploaded, Secrecy
  <2>2. ASSUME NEW c \in Candidate, candidate[c].status = "rejected", chunks[c] # "none"
        PROVE  c \in uploadLog.unfinished
    BY <2>2 DEF ReviewsAreKnown
  <2> QED BY <2>1, <2>2 DEF IndexFollowsDecisions
<1> QED BY <1>1, UploadInvariant, PTL
=============================================================================
