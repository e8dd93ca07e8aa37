--------------------------- MODULE GuardedDocument ---------------------------
(***************************************************************************)
(* What the shared Item Explorer state promises its editors, without       *)
(* versions, rows, locks or caches: one document with a draft and a        *)
(* published payload; an editor works on a copy of some state the document *)
(* had; a guarded write takes effect only on the very document its editor  *)
(* has a copy of, compared by content; a publication publishes the whole   *)
(* draft, or something new while no draft is pending.                      *)
(***************************************************************************)
CONSTANTS Editors, Payload, Absent

VARIABLES
    document,   \* the draft and the published payload, or Absent
    past,       \* every state the document has had
    copies,     \* each editor's copy, or Absent
    intent      \* the write each editor has asked for

vars == <<document, past, copies, intent>>

Document == [draft : Payload, published : Payload]

Init ==
    /\ document = Absent
    /\ past = {}
    /\ copies = [e \in Editors |-> Absent]
    /\ intent = [e \in Editors |-> "none"]

\* The document appears with nothing to publish.
Create ==
    /\ document = Absent
    /\ \E p \in Payload : document' = [draft |-> p, published |-> p]
    /\ past' = {document'}
    /\ UNCHANGED <<copies, intent>>

Obtain(e) ==
    /\ copies' \in {[copies EXCEPT ![e] = d] : d \in past}
    /\ UNCHANGED <<document, past, intent>>

Ask(e) ==
    /\ intent[e] = "none"
    /\ intent' \in {[intent EXCEPT ![e] = i] : i \in {"guarded", "blind"}}
    /\ UNCHANGED <<document, past, copies>>

\* A write of e makes next the document; e may not hear of it.
Write(e, next) ==
    /\ document # Absent
    /\ intent[e] # "none"
    /\ intent[e] = "guarded" => copies[e] = document
    /\ document' = next
    /\ past' = past \cup {next}
    /\ copies' \in {copies, [copies EXCEPT ![e] = next]}
    /\ intent' = [intent EXCEPT ![e] = "none"]

Edit(e) == \E p \in Payload : Write(e, [document EXCEPT !.draft = p])

PublishDraft(e) == Write(e, [document EXCEPT !.published = document.draft])

PublishImmediately(e) ==
    /\ document # Absent
    /\ document.draft = document.published
    /\ \E p \in Payload : Write(e, [draft |-> p, published |-> p])

\* Requests are refused, fail, or are lost in a restart.
GiveUp ==
    /\ \E E \in SUBSET Editors :
         intent' = [e \in Editors |-> IF e \in E THEN "none" ELSE intent[e]]
    /\ UNCHANGED <<document, past, copies>>

Next ==
    \/ Create
    \/ GiveUp
    \/ \E e \in Editors : Obtain(e) \/ Ask(e) \/ Edit(e) \/ PublishDraft(e)
                            \/ PublishImmediately(e)

Spec == Init /\ [][Next]_vars

=============================================================================
