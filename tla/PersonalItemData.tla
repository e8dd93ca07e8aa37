-------------------------- MODULE PersonalItemData --------------------------
(***************************************************************************)
(* The personal working data of the Item Explorer: a category, markers and *)
(* a note per item row, private to one identity.                           *)
(*                                                                         *)
(* The page (item-explorer-personal-data.service.ts) keeps what it shows,  *)
(* queues one update per edited row and sends the queue one row at a time. *)
(* When the session ends it suspends the queue in the tab's session        *)
(* storage, and takes it up again when the same identity has signed in and *)
(* the rows were loaded.  The server (views.service.ts) upserts one row at *)
(* a time into the identity's preference record.                           *)
(*                                                                         *)
(* The token is shared by all tabs and read when a request is sent, the    *)
(* page's session follows it when the tab hears of the change.             *)
(*                                                                         *)
(* The content of a row is abstracted to who may have written parts of it  *)
(* and to the number of the edit; None is a row without data.              *)
(***************************************************************************)
EXTENDS Integers, Sequences, FiniteSets

CONSTANTS
  Identities,   \* users and credentials that sign in on this browser
  Rows,         \* row keys of the Explorer
  MaxEdits,     \* bound: edits made on the page
  MaxNews,      \* bound: changes of the token the tab has still to hear of
  MaxRows,      \* MAX_PERSONAL_ITEM_ROWS
  Faults,       \* what may go wrong: a subset of {"network", "expiry"}
  None

ASSUME NoneAssumption ==
  /\ None \notin Identities \cup Rows
  /\ None \notin [by : SUBSET Identities, n : Nat]
ASSUME BoundsAssumption == MaxEdits \in Nat /\ MaxNews \in Nat /\ MaxRows \in Nat \ {0}

Data == [by : SUBSET Identities, n : 1..MaxEdits] \cup {None}
Update == [row : Rows, version : 1..MaxEdits, data : Data]

VARIABLES
  db,         \* rowData of each identity's record
  catalogue,  \* the rows of the item list the server validates against
  token,      \* the identity of ch_token in the local storage of all tabs
  events,     \* storage events of ch_token from other tabs, not delivered yet
  messages,   \* messages of other tabs in the channel ch_auth, likewise
  page,       \* the service of the open page, or None
  request,    \* the save that is in flight
  late,       \* saves whose answers nobody waits for any more
  storage,    \* the suspended session in the session storage
  edits,      \* number of edits so far
  accepted,   \* history: the latest edit of each row that no save has confirmed
  foreign,    \* history: rows written, or read, past the page that shows them
  crossed     \* history: rows written or read with the token of another

vars == <<db, catalogue, token, events, messages, page, request, late, storage, edits,
          accepted, foreign, crossed>>
auth == <<token, events, messages>>

Nothing == [r \in Rows |-> None]
FreshPage ==
  [identity |-> None, as |-> None, load |-> "idle", save |-> "idle", shown |-> Nothing, pending |-> <<>>,
   counter |-> 0, timer |-> FALSE, leaving |-> FALSE]

Open == page # None
CanEdit(p) == p.load = "loaded"

-----------------------------------------------------------------------------
(* The queue: a Map from rows to updates, which keeps a replaced entry in  *)
(* its place                                                               *)

Queued(q, r) == \E k \in DOMAIN q : q[k].row = r
Put(q, u) ==
  IF Queued(q, u.row)
    THEN [k \in DOMAIN q |-> IF q[k].row = u.row THEN u ELSE q[k]]
    ELSE Append(q, u)

\* Mutant: the answer confirms whatever is queued for the row by now.
ConfirmedByRow(q, s) == IF q # <<>> /\ Head(q).row = s.row THEN Tail(q) ELSE q

\* The row being saved is the first entry until its save is confirmed; a
\* newer edit of the row has replaced the entry and stays.
Confirmed(q, s) ==
  IF q # <<>> /\ Head(q).row = s.row /\ Head(q).version = s.version
    THEN Tail(q)
    ELSE q

Updates(q) == {q[k] : k \in DOMAIN q}
HasPending(p) ==
  p.pending # <<>> \/ request # None \/ p.timer \/ p.save = "error"

\* The interceptor takes the token that is there when the request is sent.
Save(p) ==
  [by |-> token, row |-> Head(p.pending).row, version |-> Head(p.pending).version,
   data |-> Head(p.pending).data, state |-> "sent"]

\* The history of what the token does that the tab has still to hear of.
Crosses(p, rows) ==
  crossed' = crossed \cup
    (IF token # p.identity /\ events # <<>>
       THEN ({token, p.identity} \ {None}) \X rows
       ELSE {})

\* saveNextPersonalItemRow, called when `free` tells whether no save is in flight.
SaveNext(p, free) ==
  \/ /\ ~CanEdit(p) \/ ~free
     /\ page' = p
     /\ request' = IF free THEN None ELSE request
     /\ UNCHANGED crossed
  \/ /\ CanEdit(p) /\ free
     /\ p.pending = <<>>
     /\ page' = [p EXCEPT !.save = "saved", !.leaving = FALSE]
     /\ request' = None
     /\ UNCHANGED crossed
  \/ /\ CanEdit(p) /\ free
     /\ p.pending # <<>>
     /\ page' = [p EXCEPT !.save = "saving"]
     /\ request' = Save(p)
     /\ Crosses(p, {Head(p.pending).row})

-----------------------------------------------------------------------------
(* Sessions                                                                *)

\* The answer to a save that is in flight is ignored from now on; the save
\* itself may still reach the database.
Abandoned ==
  IF request # None /\ request.state = "sent"
    THEN late \cup {[by |-> request.by, row |-> request.row, data |-> request.data]}
    ELSE late

\* suspendPendingPersonalSession
Suspended(s) ==
  IF page.pending # <<>> THEN [identity |-> page.identity, updates |-> page.pending] ELSE s

\* activateIdentityFromToken and discardPendingPersonalSessionUnlessOwnedBy
OwnedBy(s, i) == IF s # None /\ i # None /\ s.identity # i THEN None ELSE s

\* Mutant: the queue survives the change of the session.
ResetButQueue(p, i) ==
  [p EXCEPT !.identity = i, !.as = i, !.load = IF i = None THEN "idle" ELSE "loading"]

\* resetPersonalItemDataSession, then loadPersonalItemData for a new identity.
Reset(p, i) ==
  [FreshPage EXCEPT !.identity = i, !.as = i, !.counter = p.counter,
                    !.load = IF i = None THEN "idle" ELSE "loading"]

\* syncPersonalItemDataSession: the page takes over the identity of the token t,
\* when s is what is suspended.
Sync(t, s) ==
  IF Open /\ page.identity # t
    THEN /\ page' = Reset(page, t)
         /\ storage' = IF t = None THEN Suspended(s) ELSE OwnedBy(s, t)
         /\ request' = None /\ late' = Abandoned
    ELSE storage' = s /\ UNCHANGED <<page, request, late>>

\* What identities other than i have left unsaved is discarded when i takes over.
OnlyOf(i) == [j \in Identities |-> IF i \in {j, None} THEN accepted[j] ELSE Nothing]

Queueing(j) == Open /\ page.identity = j /\ CanEdit(page)

\* performLogout, from this tab: currentUser$ tells the page at once.
SignOut ==
  /\ token' = None
  /\ Sync(None, storage)
  /\ UNCHANGED <<db, catalogue, events, messages, edits, accepted, foreign, crossed>>

\* storeApplicationToken, from this tab: the login, or the refresh of a session,
\* which may be another by the time its answer arrives.
SignIn(i) ==
  /\ token' = i
  /\ Sync(i, OwnedBy(storage, i))
  /\ accepted' = OnlyOf(i)
  /\ UNCHANGED <<db, catalogue, events, messages, edits, foreign, crossed>>

\* What another tab does reaches this one as an event and as a message.
News(i, m) ==
  /\ Len(events) < MaxNews /\ Len(messages) < MaxNews
  /\ events' = Append(events, i)
  /\ messages' = Append(messages, m)

\* The same from another tab: the token is there at once, the news is not.
SignInElsewhere(i) ==
  /\ token # i
  /\ token' = i /\ News(i, "session")
  /\ UNCHANGED <<db, catalogue, page, request, late, storage, edits, accepted,
                 foreign, crossed>>

SignOutElsewhere ==
  /\ token # None
  /\ token' = None /\ News(None, "logout")
  /\ UNCHANGED <<db, catalogue, page, request, late, storage, edits, accepted, foreign, crossed>>

\* tokenStorageListener looks at the token the event brings, authStorageListener
\* of the page at the token there is by now.
HearToken ==
  /\ events # <<>>
  /\ events' = Tail(events)
  /\ Sync(token, OwnedBy(storage, Head(events)))
  /\ LET heard == [j \in Identities |-> IF Queueing(j) THEN accepted[j] ELSE OnlyOf(Head(events))[j]]
     IN accepted' = [j \in Identities |->
          IF Open /\ page.identity # token /\ token \notin {j, None} THEN Nothing ELSE heard[j]]
  /\ UNCHANGED <<db, catalogue, token, messages, edits, foreign, crossed>>

\* currentUser$ has a new value, the profile that was asked for, when the token
\* has changed already.
ProfileArrives ==
  /\ Open /\ page.identity # token
  /\ Sync(token, storage)
  /\ accepted' = OnlyOf(token)
  /\ UNCHANGED <<db, catalogue, auth, edits, foreign, crossed>>

\* The message of a sign-in: the session storage goes by the token there is.
HearSession ==
  /\ messages # <<>> /\ Head(messages) = "session"
  /\ messages' = Tail(messages)
  /\ storage' = OwnedBy(storage, token)
  /\ accepted' = [j \in Identities |-> IF Queueing(j) THEN accepted[j] ELSE OnlyOf(token)[j]]
  /\ UNCHANGED <<db, catalogue, token, events, page, request, late, edits, foreign, crossed>>

\* The message of a sign-out signs out whoever is signed in by then.
HearLogout ==
  /\ messages # <<>> /\ Head(messages) = "logout"
  /\ messages' = Tail(messages)
  /\ token' = None
  /\ Sync(None, storage)
  /\ UNCHANGED <<db, catalogue, events, edits, accepted, foreign, crossed>>

\* The route is entered: the component and its services are new.
OpenPage ==
  /\ ~Open
  /\ page' = Reset(FreshPage, token)
  /\ storage' = OwnedBy(storage, token)
  /\ accepted' = OnlyOf(token)
  /\ UNCHANGED <<db, catalogue, auth, request, late, edits, foreign, crossed>>

\* The component goes without asking the guard: ngOnDestroy suspends the queue.
DestroyPage ==
  /\ Open
  /\ page' = None
  /\ storage' = Suspended(storage)
  /\ request' = None /\ late' = Abandoned
  /\ UNCHANGED <<db, catalogue, auth, edits, accepted, foreign, crossed>>

\* The tab is reloaded: the queue goes, after the prompt of handleBeforeUnload
\* when there is anything to lose.
ReloadTab ==
  /\ Open
  /\ page' = Reset(FreshPage, token)
  /\ events' = <<>> /\ messages' = <<>>
  /\ storage' = OwnedBy(storage, token)
  /\ request' = None /\ late' = Abandoned
  /\ accepted' = [j \in Identities |-> [r \in Rows |->
       IF j = page.identity /\ Queued(page.pending, r) THEN None ELSE OnlyOf(token)[j][r]]]
  /\ UNCHANGED <<db, catalogue, token, edits, foreign, crossed>>

-----------------------------------------------------------------------------
(* Loading                                                                 *)

HighestVersion(p, s) ==
  CHOOSE n \in 0..MaxEdits :
    /\ p.counter <= n /\ \A u \in Updates(s.updates) : u.version <= n
    /\ n = p.counter \/ \E u \in Updates(s.updates) : u.version = n

\* Mutant: the restored rows are queued but not shown.
RestoredUnseen(p, s) ==
  [p EXCEPT !.pending = s.updates, !.counter = HighestVersion(p, s),
            !.save = "pending", !.timer = TRUE]

\* Mutant: the versions of the session before are added up.
RestoredOnTop(p, s) ==
  [p EXCEPT !.pending = s.updates, !.counter = p.counter + Len(s.updates),
            !.save = "pending", !.timer = TRUE]

\* restorePendingPersonalSession: the queue of the suspended session comes
\* back, over the rows that were loaded.
Restored(p, s) ==
  LET data(r) == (CHOOSE u \in Updates(s.updates) : u.row = r).data
  IN [p EXCEPT !.shown = [r \in Rows |-> IF Queued(s.updates, r) THEN data(r)
                                                                 ELSE p.shown[r]],
               !.pending = s.updates, !.counter = HighestVersion(p, s),
               !.save = "pending", !.timer = TRUE]

LoadAnswered ==
  /\ Open /\ page.load = "loading" /\ page.as # None
  /\ LET loaded == [page EXCEPT !.load = "loaded", !.as = None, !.shown = db[page.as]]
     IN page' = IF storage # None /\ storage.identity = page.identity
                  THEN Restored(loaded, storage)
                  ELSE loaded
  /\ storage' = None
  /\ foreign' = IF page.as = page.identity THEN foreign \ ({page.identity} \X Rows)
                                           ELSE foreign \cup ({page.identity} \X Rows)
  /\ UNCHANGED <<db, catalogue, auth, request, late, edits, accepted, crossed>>

\* Without a token the server refuses to read as well as to write.
LoadFails ==
  /\ Open /\ page.load = "loading"
  /\ page.as = None \/ "network" \in Faults
  /\ page' = [page EXCEPT !.load = "error", !.as = None]
  /\ UNCHANGED <<db, catalogue, auth, request, late, storage, edits, accepted, foreign, crossed>>

\* retryPersonalItemDataLoad, offered when the load has failed.
RetryLoad ==
  /\ Open /\ page.load = "error" /\ request = None
  /\ page' = [page EXCEPT !.load = "loading", !.as = token]
  /\ Crosses(page, Rows)
  /\ UNCHANGED <<db, catalogue, auth, request, late, storage, edits, accepted, foreign>>

-----------------------------------------------------------------------------
(* Editing and saving                                                      *)

\* setPersonalItemCategory, setPersonalItemNote and the marker functions:
\* the row is changed, what else it shows stays, or emptied, and queued.
Edit(r, empty) ==
  /\ Open /\ CanEdit(page)
  /\ edits < MaxEdits
  /\ edits' = edits + 1
  /\ LET before == page.shown[r]
         data == IF empty THEN None
                 ELSE [by |-> {page.identity} \cup (IF before = None THEN {} ELSE before.by),
                       n |-> edits + 1]
         u == [row |-> r, version |-> page.counter + 1, data |-> data]
     IN /\ page' = [page EXCEPT !.shown[r] = data,
                                !.counter = page.counter + 1,
                                !.pending = Put(page.pending, u),
                                !.save = "pending",
                                !.timer = TRUE]
        /\ accepted' = [accepted EXCEPT ![page.identity][r] = u]
  /\ UNCHANGED <<db, catalogue, auth, request, late, storage, foreign, crossed>>

\* The debounce timer fires, or a field loses the focus
\* (flushPersonalItemDataSave).
TimerFires ==
  /\ Open /\ page.timer
  /\ SaveNext([page EXCEPT !.timer = FALSE], request = None)
  /\ UNCHANGED <<db, catalogue, auth, late, storage, edits, accepted, foreign>>

\* retryPersonalItemDataSave
RetrySave ==
  /\ Open /\ CanEdit(page)
  /\ page.save = "error" /\ page.pending # <<>>
  /\ SaveNext([page EXCEPT !.save = "pending", !.timer = FALSE], request = None)
  /\ UNCHANGED <<db, catalogue, auth, late, storage, edits, accepted, foreign>>

\* assertKnownPersonalItemRow and the row limit of the upsert; a row can always
\* be emptied, by whoever has a token.
Refused(i, r, data) ==
  i # None => /\ data # None
              /\ \/ r \notin catalogue
                 \/ /\ db[i][r] = None
                    /\ Cardinality({q \in Rows : db[i][q] # None}) >= MaxRows

\* patchPersonalItemPreferenceRow
Store ==
  /\ request # None /\ request.state = "sent"
  /\ IF Refused(request.by, request.row, request.data)
       THEN /\ request' = [request EXCEPT !.state = "refused"]
            /\ UNCHANGED <<db, foreign>>
       ELSE /\ request' = [request EXCEPT !.state = "stored"]
            /\ db' = [db EXCEPT ![request.by][request.row] = request.data]
            /\ foreign' = IF request.by = page.identity
                            THEN foreign \ {<<page.identity, request.row>>}
                            ELSE foreign \cup {<<page.identity, request.row>>}
  /\ UNCHANGED <<catalogue, auth, page, late, storage, edits, accepted, crossed>>

\* The history of unsaved edits loses the one that is stored.
Acknowledged ==
  LET u == accepted[page.identity][request.row]
  IN IF u # None /\ u.data = request.data
       THEN [accepted EXCEPT ![page.identity][request.row] = None]
       ELSE accepted

\* Mutant: the next row waits for another edit.
SavedAlone ==
  /\ request # None /\ request.state = "stored"
  /\ page' = [page EXCEPT !.pending = Confirmed(page.pending, request), !.save = "saved"]
  /\ request' = None
  /\ accepted' = Acknowledged
  /\ UNCHANGED <<db, catalogue, auth, late, storage, edits, foreign, crossed>>

\* The answer arrives: the update is confirmed unless a newer one has replaced
\* it, and the next row is saved.
Saved ==
  /\ request # None /\ request.state = "stored"
  /\ SaveNext([page EXCEPT !.pending = Confirmed(page.pending, request)], TRUE)
  /\ accepted' = Acknowledged
  /\ UNCHANGED <<db, catalogue, auth, late, storage, edits, foreign>>

\* Mutant: nobody who waits is told.
SaveFailsUntold ==
  /\ request # None
  /\ request.state = "refused" \/ "network" \in Faults
  /\ page' = [page EXCEPT !.save = "error"]
  /\ request' = None
  /\ late' = Abandoned
  /\ UNCHANGED <<db, catalogue, auth, storage, edits, accepted, foreign, crossed>>

\* The save was refused, or its answer does not arrive; the page stops and
\* whoever waited for the queue is told so.
SaveFails ==
  /\ request # None
  /\ request.state = "refused" \/ "network" \in Faults
  /\ page' = [page EXCEPT !.save = "error", !.leaving = FALSE]
  /\ request' = None
  /\ late' = Abandoned
  /\ UNCHANGED <<db, catalogue, auth, storage, edits, accepted, foreign, crossed>>

\* A save nobody waits for reaches the database after all.
LateStore(q) ==
  /\ q \in late
  /\ late' = late \ {q}
  /\ IF Refused(q.by, q.row, q.data)
       THEN UNCHANGED <<db, foreign>>
       ELSE /\ db' = [db EXCEPT ![q.by][q.row] = q.data]
            /\ foreign' = foreign \cup {<<q.by, q.row>>}
  /\ UNCHANGED <<catalogue, auth, page, request, storage, edits, accepted, crossed>>

\* The session has expired: after its refresh the interceptor sends the request
\* again, with the token there is by then.
SaveAgain ==
  /\ "expiry" \in Faults
  /\ request # None /\ request.state = "sent"
  /\ request.by # None /\ token \notin {request.by, None}
  /\ request' = [request EXCEPT !.by = token]
  /\ Crosses(page, {request.row})
  /\ UNCHANGED <<db, catalogue, auth, page, late, storage, edits, accepted, foreign>>

LateAgain(q) ==
  /\ "expiry" \in Faults
  /\ q \in late /\ q.by # None /\ token \notin {q.by, None}
  /\ late' = (late \ {q}) \cup {[q EXCEPT !.by = token]}
  /\ crossed' = crossed \cup {<<token, q.row>>}
  /\ UNCHANGED <<db, catalogue, auth, page, request, storage, edits, accepted, foreign>>

LoadAgain ==
  /\ "expiry" \in Faults
  /\ Open /\ page.load = "loading"
  /\ page.as # None /\ token \notin {page.as, None}
  /\ page' = [page EXCEPT !.as = token]
  /\ Crosses(page, Rows)
  /\ UNCHANGED <<db, catalogue, auth, request, late, storage, edits, accepted, foreign>>

\* confirmDiscardPersonalItemDataChanges
Discard ==
  /\ Open
  /\ page.save = "error" /\ request = None /\ page.pending # <<>>
  /\ page' = [page EXCEPT !.load = "loading", !.as = token, !.save = "idle", !.shown = Nothing,
                          !.pending = <<>>, !.timer = FALSE, !.leaving = FALSE]
  /\ storage' = None
  /\ accepted' = [accepted EXCEPT ![page.identity] = Nothing]
  /\ Crosses(page, Rows)
  /\ UNCHANGED <<db, catalogue, auth, request, late, edits, foreign>>

\* canDeactivate: the page is left at once when nothing is pending, and after
\* flushPersonalItemDataSaveAndWait otherwise.
Leave ==
  /\ Open
  /\ \/ /\ ~HasPending(page)
        /\ page' = None
        /\ UNCHANGED <<request, crossed>>
     \/ /\ HasPending(page) /\ CanEdit(page)
        /\ SaveNext([page EXCEPT !.leaving = TRUE, !.timer = FALSE,
                                 !.save = IF page.pending # <<>> THEN "pending"
                                                                 ELSE page.save],
                    request = None)
  /\ UNCHANGED <<db, catalogue, auth, late, storage, edits, accepted, foreign>>

-----------------------------------------------------------------------------
(* The package                                                             *)

\* An upload or a deletion takes a row out of the item list.
RowGoes(r) ==
  /\ r \in catalogue
  /\ catalogue' = catalogue \ {r}
  /\ UNCHANGED <<db, auth, page, request, late, storage, edits, accepted, foreign, crossed>>

-----------------------------------------------------------------------------
Init ==
  /\ db = [i \in Identities |-> Nothing]
  /\ catalogue = Rows
  /\ token = None /\ events = <<>> /\ messages = <<>> /\ page = None /\ request = None
  /\ late = {} /\ storage = None
  /\ edits = 0
  /\ accepted = [i \in Identities |-> Nothing]
  /\ foreign = {} /\ crossed = {}

Next ==
  \/ SignOut \/ SignOutElsewhere \/ HearToken \/ ProfileArrives \/ HearSession \/ HearLogout
  \/ \E i \in Identities : SignIn(i) \/ SignInElsewhere(i)
  \/ OpenPage \/ DestroyPage \/ ReloadTab
  \/ LoadAnswered \/ LoadFails \/ RetryLoad
  \/ \E r \in Rows, empty \in BOOLEAN : Edit(r, empty)
  \/ TimerFires \/ RetrySave \/ Store \/ Saved \/ SaveFails
  \/ \E q \in late : LateStore(q) \/ LateAgain(q)
  \/ SaveAgain \/ LoadAgain
  \/ Discard \/ Leave
  \/ \E r \in Rows : RowGoes(r)

Spec == Init /\ [][Next]_vars

\* Timers fire, the server answers, and a request without an answer ends as failed.
Fairness ==
  /\ WF_vars(TimerFires) /\ WF_vars(Store)
  /\ WF_vars(Saved \/ SaveFails) /\ WF_vars(LoadAnswered \/ LoadFails)

FairSpec == Spec /\ Fairness

-----------------------------------------------------------------------------
(* Types                                                                   *)

Page ==
  [identity : Identities \cup {None}, as : Identities \cup {None},
   load : {"idle", "loading", "loaded", "error"},
   save : {"idle", "pending", "saving", "saved", "error"},
   shown : [Rows -> Data], pending : Seq(Update), counter : 0..MaxEdits,
   timer : BOOLEAN, leaving : BOOLEAN]
Request ==
  [by : Identities \cup {None}, row : Rows, version : 1..MaxEdits, data : Data,
   state : {"sent", "stored", "refused"}]
Suspension == [identity : Identities, updates : Seq(Update)]

ASSUME NothingAssumption == None \notin Page \cup Request \cup Suspension

\* Every variable has its type.
TypeOK ==
  /\ db \in [Identities -> [Rows -> Data]]
  /\ catalogue \subseteq Rows
  /\ token \in Identities \cup {None}
  /\ events \in Seq(Identities \cup {None}) /\ messages \in Seq({"session", "logout"})
  /\ page \in Page \cup {None}
  /\ request \in Request \cup {None}
  /\ late \subseteq [by : Identities \cup {None}, row : Rows, data : Data]
  /\ storage \in Suspension \cup {None}
  /\ edits \in 0..MaxEdits
  /\ accepted \in [Identities -> [Rows -> Update \cup {None}]]
  /\ foreign \subseteq Identities \X Rows
  /\ crossed \subseteq Identities \X Rows

(* What the personal data promise                                          *)

\* An edit that no save has confirmed is in the queue of its author's page or
\* in the suspended session of its author, with its latest content, until it
\* is discarded: whatever order saves, newer edits, sign-outs, reloads and
\* restorations come in.
Keeps(q, r, u) == \E k \in DOMAIN q : q[k].row = r /\ q[k].data = u.data
UnsavedEditsAreKept ==
  \A i \in Identities, r \in Rows :
    LET u == accepted[i][r]
    IN u # None =>
         \/ Open /\ page.identity = i /\ Keeps(page.pending, r, u)
         \/ storage # None /\ storage.identity = i /\ Keeps(storage.updates, r, u)

\* A row that is not waiting to be saved is shown as it is stored: a page that
\* reports "saved" has saved what it shows.  Rows that a late save has written,
\* or that were written or read with the token of another, are the exception.
ShownIsStored ==
  Open /\ CanEdit(page) =>
    \A r \in Rows :
      ~Queued(page.pending, r) /\ <<page.identity, r>> \notin foreign
        => page.shown[r] = db[page.identity][r]

\* What one identity has written gets into the record of another only by a
\* request that was sent between a change of the token and the event that tells
\* the page of it, or that was sent again after a refresh of the session: not
\* through a suspended session, a restored queue, a save given up earlier, or a
\* page that has heard of the change.
RowsCrossOnlyBetweenSessions ==
  \A i \in Identities, r \in Rows :
    db[i][r] # None => db[i][r].by \subseteq {i} \/ <<i, r>> \in crossed

\* Whoever waits for the queue, to leave the page or to export, gets an answer.
WaitingEnds == Open /\ page.leaving ~> ~(Open /\ page.leaving)

\* A queue is sent, or the page reports an error; a row that is refused holds
\* up the others, but not silently.
QueueIsSentOrReported ==
  Open /\ page.pending # <<>> /\ page.load = "loaded" ~>
    \/ ~Open \/ page.pending = <<>>
    \/ page.save = "error" \/ page.load # "loaded"

(* What is said of the program and does not hold                           *)

\* item-explorer.md:419: pending rows "are merged back after the same stable
\* identity signs in again, but discarded when a different identity signs in".
RowsStayWithTheirAuthor ==
  \A i \in Identities, r \in Rows : db[i][r] # None => db[i][r].by \subseteq {i}
=============================================================================
