--------------------------- MODULE ClientMaterials ---------------------------
(* Videos, photos and documents the sales persona may send to a customer.     *)
(* A row of client_materials is made by an operator's "/material", by a call  *)
(* of the endpoint, or by the model that reads each new file of the knowledge *)
(* base; it names a path, and later the file_id Telegram has given the file.  *)
(* Files are uploaded and deleted as KnowledgeUploads says.                   *)
EXTENDS Integers, FiniteSets

CONSTANTS KbFile,      \* files of the knowledge base
          Delivery,    \* turns that may be sending a material
          MaxMaterial  \* bound: materials

ASSUME MaterialBounds == MaxMaterial \in Nat \ {0}
ASSUME KbFileNames == "none" \notin KbFile /\ "operator" \notin KbFile

VARIABLES kbFile,      \* operator_files: the row, its secrecy, its binary on disk
          analysis,    \* the analysis of each file
          material,    \* client_materials
          delivery,
          materialLog  \* ghost

materialVars == <<kbFile, analysis, material, delivery, materialLog>>

Material == 1..MaxMaterial
NoMaterial == [from |-> "none", active |-> FALSE, tagged |-> FALSE, cached |-> FALSE]
NoDelivery == [pc |-> "idle", material |-> 0, cached |-> FALSE, late |-> FALSE]

MaterialInit ==
  /\ kbFile = [f \in KbFile |-> [row |-> "none", secret |-> FALSE, disk |-> FALSE]]
  /\ analysis = [f \in KbFile |-> "idle"]
  /\ material = [m \in Material |-> NoMaterial]
  /\ delivery = [d \in Delivery |-> NoDelivery]
  /\ materialLog = [removed |-> {}, sent |-> {}]

Files == <<kbFile, analysis>>
Sending == <<delivery, materialLog>>

\* ClientMaterialsRepository.add: the id after the largest one ever given.
Add(row) ==
  \E m \in Material :
    /\ material[m] = NoMaterial /\ \A n \in 1..(m - 1) : material[n] # NoMaterial
    /\ material' = [material EXCEPT ![m] = row]

-----------------------------------------------------------------------------
\* A file has joined the knowledge base: unless it is secret, the bot has it
\* read for materials, and for services as ServiceCatalogue says.
analyze_kb_uploads(f, secret) ==
  /\ kbFile[f].row = "none"
  /\ kbFile' = [kbFile EXCEPT ![f] = [row |-> "kept", secret |-> secret, disk |-> TRUE]]
  /\ analysis' = [analysis EXCEPT ![f] = IF secret THEN "idle" ELSE "asked"]
  /\ UNCHANGED <<material, Sending>>

\* The api looks the file up again. One that is gone or secret, or without a
\* text, is not shown to the model; the bot may also fail to reach the api.
analysis_reads(f) ==
  /\ analysis[f] = "asked"
  /\ \E legible \in BOOLEAN :
       analysis' = [analysis EXCEPT ![f] =
         IF legible /\ kbFile[f].row = "kept" /\ ~kbFile[f].secret THEN "model" ELSE "idle"]
  /\ UNCHANGED <<kbFile, material, Sending>>

\* The model finds the file fit to be sent, or not, or fails. Nothing is looked up
\* again: the file may be gone by now. The new material has no tags.
analyze_and_register(f) ==
  /\ analysis[f] = "model"
  /\ analysis' = [analysis EXCEPT ![f] = "idle"]
  /\ Add([NoMaterial EXCEPT !.from = f, !.active = TRUE]) \/ UNCHANGED material
  /\ UNCHANGED <<kbFile, Sending>>

\* "/file delete": the row, then the binary, which may stay on the disk. Materials
\* of the file are left as they are.
delete_kb_file(f) ==
  /\ kbFile[f].row = "kept"
  /\ \E unlinked \in BOOLEAN :
       kbFile' = [kbFile EXCEPT ![f].row = "deleted", ![f].disk = ~unlinked]
  /\ UNCHANGED <<analysis, material, Sending>>

\* "/material" in reply to a file: the bot downloads a copy of its own and knows
\* the file_id; it gives no tags.
handle_material_register ==
  /\ Add([NoMaterial EXCEPT !.from = "operator", !.active = TRUE, !.cached = TRUE])
  /\ UNCHANGED <<Files, Sending>>

\* The endpoint itself also takes tags, and no file_id.
sales_materials_add ==
  /\ Add([NoMaterial EXCEPT !.from = "operator", !.active = TRUE, !.tagged = TRUE])
  /\ UNCHANGED <<Files, Sending>>

\* "/material_remove": a row that is active is made inactive.
handle_material_remove(m) ==
  /\ material[m].active
  /\ material' = [material EXCEPT ![m].active = FALSE]
  /\ materialLog' = [materialLog EXCEPT !.removed = @ \cup {m}]
  /\ UNCHANGED <<Files, delivery>>

-----------------------------------------------------------------------------
\* Only a tag in common with the wish makes a material a candidate.
Sendable == {m \in Material : material[m].active /\ material[m].tagged}

\* A media moment of the persona's talk picks a material.
fire_media_moment(d) ==
  /\ delivery[d].pc = "idle"
  /\ \E m \in Sendable : delivery' = [delivery EXCEPT ![d].pc = "picked", ![d].material = m]
  /\ UNCHANGED <<Files, material, materialLog>>

\* The endpoint may also be called with the id of any row.
dispatch_by_id(d, m) ==
  /\ delivery[d].pc = "idle" /\ material[m] # NoMaterial
  /\ delivery' = [delivery EXCEPT ![d].pc = "picked", ![d].material = m]
  /\ UNCHANGED <<Files, material, materialLog>>

\* The row is looked up again: one that is not active any more is not sent.
sales_dispatch_material(d) ==
  /\ delivery[d].pc = "picked"
  /\ LET m == delivery[d].material IN
     delivery' = [delivery EXCEPT ![d] =
       IF material[m].active
         THEN [@ EXCEPT !.pc = "sending", !.cached = material[m].cached,
                        !.late = m \in materialLog.removed]
         ELSE NoDelivery]
  /\ UNCHANGED <<Files, material, materialLog>>

OnDisk(m) == material[m].from \in KbFile => kbFile[material[m].from].disk

\* Telegram takes the file_id, or the file if it is still there, and answers with
\* an id to be kept; or the send fails, or its answer is lost.
send_media(d) ==
  LET m == delivery[d].material IN
  /\ delivery[d].pc = "sending"
  /\ \E delivered, answered \in BOOLEAN :
       /\ delivered => delivery[d].cached \/ OnDisk(m)
       /\ materialLog' = IF delivered
                           THEN [materialLog EXCEPT !.sent =
                                   @ \cup {[material |-> m, late |-> delivery[d].late]}]
                           ELSE materialLog
       /\ delivery' = [delivery EXCEPT ![d] =
            IF delivered /\ answered /\ ~@.cached THEN [@ EXCEPT !.pc = "cache"]
            ELSE NoDelivery]
  /\ UNCHANGED <<Files, material>>

(* Mutant: the row is saved as it was looked up. *)
update_row_as_read(d) ==
  /\ delivery[d].pc = "cache"
  /\ material' = [material EXCEPT ![delivery[d].material].cached = TRUE,
                                  ![delivery[d].material].active = TRUE]
  /\ delivery' = [delivery EXCEPT ![d] = NoDelivery]
  /\ UNCHANGED <<Files, materialLog>>

\* The file_id is kept for the next time, whatever became of the row meanwhile.
update_telegram_file_id(d) ==
  /\ delivery[d].pc = "cache"
  /\ material' = [material EXCEPT ![delivery[d].material].cached = TRUE]
  /\ delivery' = [delivery EXCEPT ![d] = NoDelivery]
  /\ UNCHANGED <<Files, materialLog>>

\* The api dies: turns and analyses are gone.
RestartMaterials ==
  /\ delivery' = [d \in Delivery |-> NoDelivery]
  /\ analysis' = [f \in KbFile |-> "idle"]
  /\ UNCHANGED <<kbFile, material, materialLog>>

MaterialNext ==
  \/ \E f \in KbFile, secret \in BOOLEAN : analyze_kb_uploads(f, secret)
  \/ \E f \in KbFile : analysis_reads(f) \/ analyze_and_register(f) \/ delete_kb_file(f)
  \/ handle_material_register \/ sales_materials_add
  \/ \E m \in Material : handle_material_remove(m)
  \/ \E d \in Delivery, m \in Material : dispatch_by_id(d, m)
  \/ \E d \in Delivery : fire_media_moment(d) \/ sales_dispatch_material(d)
                           \/ send_media(d) \/ update_telegram_file_id(d)
  \/ RestartMaterials

MaterialSpec == MaterialInit /\ [][MaterialNext]_materialVars

-----------------------------------------------------------------------------
\* A removed material is sent to nobody but the customers whose turn had already
\* looked it up, whatever was being sent when it was removed; and nothing of a
\* secret file becomes a material, by whatever way the file came and went.
CustomersGetMaterials ==
  /\ \A sent \in materialLog.sent : ~sent.late
  /\ \A m \in Material : material[m].from \in KbFile => ~kbFile[material[m].from].secret
=============================================================================
