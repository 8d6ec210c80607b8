-------------------------- MODULE TerminalUIProofs --------------------------
(* Proofs about the terminal interface: the invariant of TerminalUIInvariant  *)
(* is kept by every step, and the properties of the interface follow from it. *)
(* First every handler, for every Model that it may be given; then the        *)
(* actions.                                                                   *)
EXTENDS TerminalUIInvariant, TLAPS

---------------------------------------------------------------------------
(* Stacks of dialogs.                                                       *)

LEMMA Pushed ==
    ASSUME NEW m \in Modals, NEW s \in Seq(Modals)
    PROVE  /\ <<m>> \o s \in Seq(Modals)
           /\ Len(<<m>> \o s) = Len(s) + 1
           /\ (<<m>> \o s)[1] = m
           /\ \A i \in 2..(Len(s) + 1) : (<<m>> \o s)[i] = s[i - 1]
  OBVIOUS

LEMMA Popped ==
    ASSUME NEW s \in Seq(Modals), s # <<>>
    PROVE  /\ Head(s) = s[1] /\ s[1] \in Modals
           /\ Tail(s) \in Seq(Modals)
           /\ Len(s) \in Nat /\ Len(s) > 0
           /\ Len(Tail(s)) = Len(s) - 1
           /\ \A i \in 1..Len(Tail(s)) : Tail(s)[i] = s[i + 1]
  OBVIOUS

LEMMA ModalIs ==
    ASSUME NEW k \in ModalKinds, NEW q \in BOOLEAN
    PROVE  /\ Modal(k, q) \in Modals
           /\ Modal(k, q).kind = k /\ Modal(k, q).quit = q
           /\ ~Modal(k, q).blocked /\ Modal(k, q).recovery = "idle"
           /\ NoModal \in Modals /\ NoModal.kind = "none"
  BY DEF Modal, Modals, ModalKinds, NoModal

---------------------------------------------------------------------------
(* Handlers that leave the operation and the prompt alone.                  *)

\* The parts of a Model that dialogs and forms leave alone.
Keeps(u, v) ==
    /\ v.last = u.last /\ v.operation = u.operation /\ v.security = u.security
    /\ v.startup = u.startup /\ v.leaving = u.leaving

LEMMA KeepsFits ==
    ASSUME NEW u, NEW v, OperationFits(u), PromptFits(u), StartupFits(u), Keeps(u, v),
           ~u.startup.present \/ v.screen = u.screen
    PROVE  OperationFits(v) /\ PromptFits(v) /\ StartupFits(v)
  BY DEF Keeps, OperationFits, PromptFits, StartupFits

LEMMA CloseModalIs ==
    ASSUME NEW u, ModelFits(u)
    PROVE  /\ ModelFits(CloseModal(u)) /\ Keeps(u, CloseModal(u))
           /\ CloseModal(u).modal = NoModal /\ CloseModal(u).under = <<>>
           /\ CloseModal(u).screen = u.screen
  <1> DEFINE v == CloseModal(u)
  <1>1. NoModal \in Modals /\ NoModal.kind = "none" /\ <<>> \in Seq(Modals)
    BY DEF Modal, Modals, ModalKinds, NoModal
  <1>2. v \in Models /\ Keeps(u, v) /\ v.modal = NoModal /\ v.under = <<>> /\ v.screen = u.screen
    BY <1>1 DEF CloseModal, Models, ModelFits, Keeps
  <1> HIDE DEF v
  <1>3. OperationFits(v) /\ PromptFits(v) /\ StartupFits(v)
    BY <1>2, KeepsFits DEF ModelFits
  <1>4. DialogFits(v)
    BY <1>1, <1>2 DEF DialogFits
  <1> QED
    BY <1>2, <1>3, <1>4 DEF ModelFits, v

LEMMA OpenModalIs ==
    ASSUME NEW u, ModelFits(u), NEW k \in ModalKinds, NEW q \in BOOLEAN,
           k = "start" => u.screen = "tunnelform", k # "quit"
    PROVE  /\ ModelFits(OpenModal(u, Modal(k, q))) /\ Keeps(u, OpenModal(u, Modal(k, q)))
           /\ OpenModal(u, Modal(k, q)).screen = u.screen
  <1> DEFINE v == OpenModal(u, Modal(k, q))
  <1>1. Modal(k, q) \in Modals /\ Modal(k, q).kind = k
    BY ModalIs
  <1>2. /\ v \in Models /\ Keeps(u, v) /\ v.under = u.under /\ v.screen = u.screen
        /\ v.modal = IF u.modal.kind = "none" THEN Modal(k, q) ELSE u.modal
    BY <1>1 DEF OpenModal, Models, ModelFits, Keeps
  <1> HIDE DEF v
  <1>3. OperationFits(v) /\ PromptFits(v) /\ StartupFits(v)
    BY <1>2, KeepsFits DEF ModelFits
  <1>4. DialogFits(v)
    BY <1>1, <1>2 DEF DialogFits, ModelFits, Keeps
  <1> QED
    BY <1>2, <1>3, <1>4 DEF ModelFits, v

\* A form is closed unless the dialog of starting a tunnel is over it.
MayClose(u) ==
    ~u.startup.present /\ (u.screen = "form" \/ u.modal.kind \notin {"start", "quit"})

LEMMA CloseFormIs ==
    ASSUME NEW u, ModelFits(u), MayClose(u)
    PROVE  /\ ModelFits(CloseForm(u)) /\ Keeps(u, CloseForm(u))
           /\ CloseForm(u).modal = u.modal /\ CloseForm(u).under = u.under
  <1> DEFINE v == CloseForm(u)
  <1>1. /\ v \in Models /\ Keeps(u, v) /\ v.modal = u.modal /\ v.under = u.under
        /\ v.screen = "browser"
    BY DEF CloseForm, Models, ModelFits, Keeps
  <1> HIDE DEF v
  <1>2. OperationFits(v) /\ PromptFits(v) /\ StartupFits(v)
    BY <1>1, KeepsFits DEF ModelFits, MayClose
  <1>3. DialogFits(v)
    BY <1>1 DEF DialogFits, ModelFits, Keeps, MayClose
  <1> QED
    BY <1>1, <1>2, <1>3 DEF ModelFits, v

LEMMA CancelFormIs ==
    ASSUME NEW u, ModelFits(u), MayClose(u)
    PROVE  ModelFits(CancelForm(u)) /\ Keeps(u, CancelForm(u))
  <1>1. ModelFits(CloseForm(u)) /\ Keeps(u, CloseForm(u))
    BY CloseFormIs
  <1>2. /\ ModelFits(OpenModal(CloseForm(u), Modal("sshfailure", FALSE)))
        /\ Keeps(CloseForm(u), OpenModal(CloseForm(u), Modal("sshfailure", FALSE)))
    BY <1>1, OpenModalIs, "sshfailure" \in ModalKinds DEF ModalKinds
  <1> QED
    BY <1>1, <1>2 DEF CancelForm, Keeps

\* Changes of the form, and of what a dialog shows.
LEMMA FieldsAre ==
    ASSUME NEW u, ModelFits(u), NEW v \in Models, Keeps(u, v),
           v.screen = u.screen, v.under = u.under, v.modal.kind = u.modal.kind
    PROVE  ModelFits(v)
  <1>1. OperationFits(v) /\ PromptFits(v) /\ StartupFits(v)
    BY KeepsFits DEF ModelFits
  <1>2. DialogFits(v)
    BY DEF DialogFits, ModelFits, Keeps
  <1> QED
    BY <1>1, <1>2 DEF ModelFits

LEMMA ClearSecurityIs ==
    ASSUME NEW u, ModelFits(u)
    PROVE  /\ ModelFits(ClearSecurity(u))
           /\ ClearSecurity(u) = [u EXCEPT !.security = NoSecurity]
           /\ ClearSecurity(u).security = NoSecurity /\ NoSecurity.kind = "none"
           /\ ClearSecurity(u).last = u.last /\ ClearSecurity(u).operation = u.operation
           /\ ClearSecurity(u).startup = u.startup /\ ClearSecurity(u).leaving = u.leaving
           /\ ClearSecurity(u).modal = u.modal /\ ClearSecurity(u).under = u.under
           /\ ClearSecurity(u).screen = u.screen
  <1> DEFINE v == ClearSecurity(u)
  <1>1. NoSecurity \in Prompts /\ NoSecurity.kind = "none"
    BY DEF NoSecurity, Prompts
  <1>2. /\ v \in Models /\ v.security = NoSecurity
        /\ v.last = u.last /\ v.operation = u.operation /\ v.startup = u.startup
        /\ v.leaving = u.leaving /\ v.modal = u.modal /\ v.under = u.under
        /\ v.screen = u.screen
    BY <1>1 DEF ClearSecurity, Models, ModelFits
  <1>3. v = [u EXCEPT !.security = NoSecurity]
    BY DEF ClearSecurity
  <1> HIDE DEF v
  <1>4. OperationFits(v) /\ PromptFits(v) /\ StartupFits(v) /\ DialogFits(v)
    BY <1>1, <1>2 DEF ModelFits, OperationFits, PromptFits, StartupFits, DialogFits
  <1> QED
    BY <1>1, <1>2, <1>3, <1>4 DEF ModelFits, v

---------------------------------------------------------------------------
(* Canceling, and leaving.                                                  *)

LEMMA RequestCancellationIs ==
    ASSUME NEW u, ModelFits(u), NEW quit \in BOOLEAN
    PROVE  LET v == RequestCancellation(u, quit) IN
           /\ ModelFits(v)
           /\ v.last = u.last /\ v.security = u.security /\ v.startup = u.startup
           /\ v.leaving = u.leaving /\ v.modal = u.modal /\ v.under = u.under
           /\ v.screen = u.screen
           /\ v.operation.id = u.operation.id /\ v.operation.kind = u.operation.kind
           /\ v.operation.quit => u.operation.quit \/ quit
  <1> DEFINE v == RequestCancellation(u, quit)
  <1>1. CASE u.operation.kind = "none"
    BY <1>1 DEF RequestCancellation
  <1>2. CASE u.operation.kind # "none"
    <2> DEFINE q == IF u.operation.canceled THEN u.operation.quit \/ quit ELSE quit
               o == [[u.operation EXCEPT !.canceled = TRUE] EXCEPT !.quit = q]
    <2>1. u \in Models /\ u.operation \in Operations /\ q \in BOOLEAN
      BY DEF ModelFits, Models, Operations
    <2>2. /\ o \in Operations /\ o.id = u.operation.id /\ o.kind = u.operation.kind
          /\ o.quit = q /\ o.canceled
      BY <2>1 DEF Operations
    <2>3. v = [u EXCEPT !.operation = o]
      BY <1>2, <2>1 DEF RequestCancellation, Models
    <2> HIDE DEF o
    <2>4. /\ v \in Models /\ v.operation = o
          /\ v.last = u.last /\ v.security = u.security /\ v.startup = u.startup
          /\ v.leaving = u.leaving /\ v.modal = u.modal /\ v.under = u.under
          /\ v.screen = u.screen
      BY <2>1, <2>2, <2>3 DEF Models
    <2> HIDE DEF v
    <2>5. OperationFits(v) /\ PromptFits(v) /\ StartupFits(v) /\ DialogFits(v)
      BY <1>2, <2>2, <2>4 DEF ModelFits, OperationFits, PromptFits, StartupFits, DialogFits
    <2> QED
      BY <2>2, <2>4, <2>5 DEF ModelFits, v
  <1> QED
    BY <1>1, <1>2

\* The operation goes on, with what belongs to it.
Kept(u, v) ==
    /\ v.last = u.last /\ v.startup = u.startup
    /\ v.operation.id = u.operation.id /\ v.operation.kind = u.operation.kind
    /\ v.operation.quit => u.operation.quit \/ ~Live

LeavesFits(u, v) ==
    v.leaving = u.leaving \/ (v.leaving = "closing" /\ (~Live \/ ui.modal.kind = "quit"))

LEMMA CloseAndQuitIs ==
    ASSUME NEW u, ModelFits(u)
    PROVE  LET v == CloseAndQuit(u) IN
           /\ ModelFits(v) /\ Kept(u, v) /\ v.security = u.security /\ v.leaving = "closing"
  <1> DEFINE w == RequestCancellation(u, FALSE)
             v == CloseAndQuit(u)
  <1>1. /\ ModelFits(w)
        /\ w.last = u.last /\ w.security = u.security /\ w.startup = u.startup
        /\ w.operation.id = u.operation.id /\ w.operation.kind = u.operation.kind
        /\ w.operation.quit => u.operation.quit
    BY RequestCancellationIs
  <1> HIDE DEF w
  <1>2. v = [w EXCEPT !.leaving = "closing"]
    BY DEF CloseAndQuit, w
  <1>3. /\ v \in Models /\ v.leaving = "closing" /\ v.last = w.last /\ v.security = w.security
        /\ v.startup = w.startup /\ v.operation = w.operation /\ v.modal = w.modal
        /\ v.under = w.under /\ v.screen = w.screen
    BY <1>1, <1>2 DEF Models, ModelFits
  <1> HIDE DEF v
  <1>4. OperationFits(v) /\ PromptFits(v) /\ StartupFits(v) /\ DialogFits(v)
    BY <1>1, <1>3 DEF ModelFits, OperationFits, PromptFits, StartupFits, DialogFits
  <1> QED
    BY <1>1, <1>3, <1>4 DEF ModelFits, Kept, v

\* The question of leaving is asked over itself only between operations.
MayAsk(u) ==
    u.modal.kind = "quit" => u.operation.kind = "none" /\ Len(u.under) <= 1

LEMMA RequestQuitIs ==
    ASSUME NEW u, ModelFits(u), MayAsk(u)
    PROVE  LET v == RequestQuit(u) IN
           /\ ModelFits(v) /\ Kept(u, v) /\ v.security = u.security
           /\ v.leaving = u.leaving \/ (v.leaving = "closing" /\ ~Live)
  <1> DEFINE v == RequestQuit(u)
  <1>1. CASE ~Live
    BY <1>1, CloseAndQuitIs DEF RequestQuit
  <1>2. CASE Live
    <2> DEFINE s == IF u.modal.kind = "none" THEN <<>> ELSE <<u.modal>> \o u.under
               m == Modal("quit", FALSE)
    <2>1. u \in Models /\ u.modal \in Modals /\ u.under \in Seq(Modals)
      BY DEF ModelFits, Models
    <2>2. m \in Modals /\ m.kind = "quit"
      BY DEF Modal, Modals, ModalKinds
    <2>3. /\ s \in Seq(Modals)
          /\ u.modal.kind = "none" => s = <<>> /\ Len(s) = 0
          /\ u.modal.kind # "none" =>
                 /\ Len(s) = Len(u.under) + 1 /\ s[1] = u.modal
                 /\ \A i \in 2..(Len(u.under) + 1) : s[i] = u.under[i - 1]
      BY <2>1, Pushed
    <2>4. v = [[u EXCEPT !.under = s] EXCEPT !.modal = m]
      BY <1>2, <2>1 DEF RequestQuit, Models
    <2> HIDE DEF s, m
    <2>5. /\ v \in Models /\ v.under = s /\ v.modal = m /\ v.screen = u.screen
          /\ Keeps(u, v)
      BY <2>1, <2>2, <2>3, <2>4 DEF Models, Keeps
    <2> HIDE DEF v
    <2>6. OperationFits(v) /\ PromptFits(v) /\ StartupFits(v)
      BY <2>5, KeepsFits DEF ModelFits
    <2>7. Len(s) <= IF u.operation.kind = "none" THEN 2 ELSE 1
      BY <2>1, <2>3, Len(<<>>) = 0 DEF ModelFits, DialogFits, MayAsk
    <2>8. Len(s) = 2 => s[1].kind = "quit"
      BY <2>1, <2>3, Len(<<>>) = 0 DEF ModelFits, DialogFits
    <2>9. \A i \in 1..Len(s) : s[i].kind = "start" => u.screen = "tunnelform"
      <3> SUFFICES ASSUME NEW i \in 1..Len(s), s[i].kind = "start"
                   PROVE  u.screen = "tunnelform"
        OBVIOUS
      <3>1. Len(u.under) \in Nat /\ u.modal.kind # "none"
        BY <2>1, <2>3
      <3>2. CASE i = 1
        BY <2>3, <3>1, <3>2 DEF ModelFits, DialogFits
      <3>3. CASE i # 1
        BY <2>3, <3>1, <3>3 DEF ModelFits, DialogFits
      <3> QED
        BY <3>2, <3>3
    <2>10. DialogFits(v)
      BY <2>2, <2>5, <2>7, <2>8, <2>9 DEF DialogFits, Keeps
    <2> QED
      BY <2>5, <2>6, <2>10 DEF ModelFits, Keeps, Kept, v
  <1> QED
    BY <1>1, <1>2

---------------------------------------------------------------------------
(* Handlers that begin and end operations.                                  *)

\* The next operation is begun, and whatever starts starts.
Begun(u, v) ==
    /\ v.last = u.last + 1
    /\ v.operation.id = v.last /\ v.operation.kind # "none"
    /\ v.security.kind = "none"
    /\ v.startup.present => ~v.startup.stopping /\ v.startup.attempt = 0

\* Nothing runs, so that nobody asks and no tunnel starts.
Idle(u) == ModelFits(u) /\ u.operation.kind = "none" /\ Len(u.under) <= 1

LEMMA IdleIs ==
    ASSUME NEW u, Idle(u)
    PROVE  /\ u.operation = NoOperation /\ u.startup = NoStartup /\ ~u.startup.present
           /\ u.security.kind = "none" /\ MayAsk(u)
  BY DEF Idle, ModelFits, OperationFits, StartupFits, PromptFits, MayAsk, Models, Prompts

LEMMA BeginIs ==
    ASSUME NEW u, Idle(u), NEW kind \in OperationKinds,
           u.last <= MaxOperations, kind = "reload" \/ u.last < MaxOperations
    PROVE  LET v == Begin(u, kind) IN
           /\ ModelFits(v) /\ Begun(u, v)
           /\ v.operation.kind = kind /\ ~v.operation.quit
           /\ v.modal = u.modal /\ v.under = u.under /\ v.screen = u.screen
           /\ v.startup = NoStartup /\ v.leaving = u.leaving
  <1> DEFINE v == Begin(u, kind)
             o == [id |-> u.last + 1, kind |-> kind, canceled |-> FALSE, quit |-> FALSE]
  <1>1. u \in Models /\ u.last \in 1..(MaxOperations + 1) /\ u.last + 1 \in OperationIds
    BY UIAssumption DEF Idle, ModelFits, OperationFits, OperationIds
  <1>2. o \in Operations /\ o.id = u.last + 1 /\ o.kind = kind /\ ~o.quit /\ kind # "none"
    BY <1>1 DEF Operations, OperationKinds
  <1>3. v = [[u EXCEPT !.last = u.last + 1] EXCEPT !.operation = o]
    BY <1>1 DEF Idle, Begin, Models
  <1> HIDE DEF o
  <1>4. /\ v \in Models /\ v.last = u.last + 1 /\ v.operation = o
        /\ v.modal = u.modal /\ v.under = u.under /\ v.screen = u.screen
        /\ v.startup = u.startup /\ v.leaving = u.leaving /\ v.security = u.security
    BY <1>1, <1>2, <1>3 DEF Models
  <1> HIDE DEF v
  <1>5. u.startup = NoStartup /\ ~NoStartup.present /\ u.security.kind = "none"
    BY IdleIs DEF NoStartup
  <1>6. OperationFits(v)
    BY <1>1, <1>2, <1>4, UIAssumption DEF OperationFits
  <1>7. StartupFits(v) /\ PromptFits(v) /\ DialogFits(v)
    BY <1>2, <1>4, <1>5 DEF StartupFits, PromptFits, DialogFits, Idle, ModelFits
  <1> QED
    BY <1>2, <1>4, <1>5, <1>6, <1>7 DEF ModelFits, Begun, v

LEMMA ReloadAfterCommitIs ==
    ASSUME NEW u, Idle(u), u.last <= MaxOperations, NEW quit \in BOOLEAN
    PROVE  LET v == ReloadAfterCommit(u, quit) IN
           /\ ModelFits(v) /\ Begun(u, v)
           /\ v.operation.kind = "reload" /\ v.leaving = u.leaving
  <1> DEFINE w == Begin(u, "reload")
             v == ReloadAfterCommit(u, quit)
             o == [w.operation EXCEPT !.quit = w.operation.quit \/ quit]
  <1>1. /\ ModelFits(w) /\ Begun(u, w) /\ w.operation.kind = "reload"
        /\ w.startup = NoStartup /\ w.leaving = u.leaving
    BY BeginIs, "reload" \in OperationKinds DEF OperationKinds
  <1> HIDE DEF w
  <1>2. w \in Models /\ w.operation \in Operations
    BY <1>1 DEF ModelFits, Models
  <1>3. o \in Operations /\ o.id = w.operation.id /\ o.kind = w.operation.kind
    BY <1>2 DEF Operations
  <1>4. v = [w EXCEPT !.operation = o]
    BY <1>2 DEF ReloadAfterCommit, Models, w
  <1> HIDE DEF o
  <1>5. /\ v \in Models /\ v.operation = o /\ v.last = w.last
        /\ v.modal = w.modal /\ v.under = w.under /\ v.screen = w.screen
        /\ v.startup = w.startup /\ v.leaving = w.leaving /\ v.security = w.security
    BY <1>2, <1>3, <1>4 DEF Models
  <1> HIDE DEF v
  <1>6. OperationFits(v) /\ StartupFits(v) /\ PromptFits(v) /\ DialogFits(v)
    BY <1>1, <1>3, <1>5 DEF ModelFits, OperationFits, StartupFits, PromptFits, DialogFits
  <1> QED
    BY <1>1, <1>3, <1>5, <1>6, ~NoStartup.present DEF ModelFits, Begun, NoStartup, v

\* What a handler does with a Model in which nothing runs: the operation is not
\* taken up, or the next one is begun; the program may be left.
After(u, v) ==
    /\ ModelFits(v) /\ v.security.kind = "none"
    /\ LeavesFits(u, v)
    /\ \/ v.last = u.last /\ v.operation.kind = "none"
       \/ Begun(u, v)

LEMMA AfterIs ==
    ASSUME NEW u, Idle(u)
    PROVE  /\ After(u, u)
           /\ \A v : ModelFits(v) /\ Keeps(u, v) => After(u, v)
           /\ \A quit \in BOOLEAN : After(u, QuitIf(quit, u))
  <1>1. \A v : ModelFits(v) /\ Keeps(u, v) => After(u, v)
    BY IdleIs DEF After, Keeps, LeavesFits, Idle
  <1>2. After(u, u)
    BY <1>1 DEF Keeps, Idle
  <1>3. After(u, RequestQuit(u))
    BY RequestQuitIs, IdleIs DEF After, Kept, LeavesFits, Idle
  <1> QED
    BY <1>1, <1>2, <1>3 DEF QuitIf

\* The same when something has been closed or opened before.
LEMMA AfterKeeps ==
    ASSUME NEW u, Idle(u), NEW w, ModelFits(w), Keeps(u, w), Len(w.under) <= 1
    PROVE  /\ Idle(w)
           /\ \A v : After(w, v) => After(u, v)
  BY DEF Idle, Keeps, After, Begun, LeavesFits

---------------------------------------------------------------------------
(* Results of commands.                                                     *)

LEMMA EditedAfter ==
    ASSUME NEW u, Idle(u), NEW w \in Models, Keeps(u, w),
           w.screen = u.screen, w.under = u.under, w.modal.kind = u.modal.kind
    PROVE  /\ Idle(w) /\ After(u, w)
           /\ \A quit \in BOOLEAN : After(u, QuitIf(quit, w))
  <1>1. ModelFits(w)
    BY FieldsAre DEF Idle
  <1>2. Idle(w) /\ \A v : After(w, v) => After(u, v)
    BY <1>1, AfterKeeps DEF Idle
  <1> QED
    BY <1>1, <1>2, AfterIs

LEMMA FailedIs ==
    ASSUME NEW u, Idle(u), NEW result
    PROVE  After(u, Failed(u, result))
  <1>1. u \in Models /\ ModelFits(u)
    BY DEF Idle, ModelFits
  <1>2. CASE u.modal.kind = "none"
    BY <1>1, <1>2, OpenModalIs, AfterIs, "error" \in ModalKinds DEF Failed, ModalKinds
  <1>3. CASE u.modal.kind # "none"
    <2> DEFINE w == [u EXCEPT !.modal.blocked = u.modal.blocked \/ result = "conflict"]
    <2>1. Failed(u, result) = w
      BY <1>1, <1>3 DEF Failed, Models, Modals
    <2>2. /\ w \in Models /\ Keeps(u, w)
          /\ w.screen = u.screen /\ w.under = u.under /\ w.modal.kind = u.modal.kind
      BY <1>1 DEF Models, Modals, Keeps
    <2> QED
      BY <2>1, <2>2, EditedAfter
  <1> QED
    BY <1>2, <1>3

Marks(u, c, b) ==
    [u EXCEPT !.conflict = c, !.modal.blocked = b,
              !.modal.recovery = IF u.modal.kind = "sshfailure" THEN "idle" ELSE @]

LEMMA ReloadResultIs ==
    ASSUME NEW u, Idle(u), NEW quit \in BOOLEAN, NEW result,
           NEW v \in ReloadResult(u, quit, result)
    PROVE  After(u, v)
  <1>1. u \in Models /\ ModelFits(u)
    BY DEF Idle, ModelFits
  <1>2. CASE result = "ok"
    <2>1. PICK c \in {FALSE, u.conflict}, b \in {FALSE, u.modal.blocked} :
             v = QuitIf(quit, Marks(u, c, b))
      BY <1>2 DEF ReloadResult, Reloaded, Marks
    <2>2. c \in BOOLEAN /\ b \in BOOLEAN
      BY <1>1 DEF Models, Modals
    <2>3. LET w == Marks(u, c, b) IN
          /\ w \in Models /\ Keeps(u, w)
          /\ w.screen = u.screen /\ w.under = u.under /\ w.modal.kind = u.modal.kind
      BY <1>1, <2>2 DEF Models, Modals, Keeps, Marks
    <2> QED
      BY <2>1, <2>3, EditedAfter
  <1>3. CASE result # "ok" /\ u.modal.kind = "sshfailure"
    <2> DEFINE w == [u EXCEPT !.modal.recovery = "blocked"]
    <2>1. v = w
      BY <1>3 DEF ReloadResult
    <2>2. /\ w \in Models /\ Keeps(u, w)
          /\ w.screen = u.screen /\ w.under = u.under /\ w.modal.kind = u.modal.kind
      BY <1>1 DEF Models, Modals, Keeps
    <2> QED
      BY <2>1, <2>2, EditedAfter
  <1>4. CASE result = "canceled" /\ u.modal.kind # "sshfailure"
    <2> DEFINE w == [u EXCEPT !.leave = FALSE]
    <2>1. v = QuitIf(quit, w)
      BY <1>4 DEF ReloadResult
    <2>2. /\ w \in Models /\ Keeps(u, w)
          /\ w.screen = u.screen /\ w.under = u.under /\ w.modal.kind = u.modal.kind
      BY <1>1 DEF Models, Modals, Keeps
    <2> QED
      BY <2>1, <2>2, EditedAfter
  <1>5. CASE result \notin {"ok", "canceled"} /\ u.modal.kind # "sshfailure"
    <2>1. v \in {u, Failed(u, result)}
      BY <1>5 DEF ReloadResult
    <2> QED
      BY <2>1, AfterIs, FailedIs
  <1> QED
    BY <1>2, <1>3, <1>4, <1>5

LEMMA ReloadAfter ==
    ASSUME NEW u, Idle(u), NEW w, ModelFits(w), Keeps(u, w), Len(w.under) <= 1,
           u.last <= MaxOperations, NEW quit \in BOOLEAN
    PROVE  After(u, ReloadAfterCommit(w, quit))
  <1>1. Idle(w) /\ w.last <= MaxOperations
    BY AfterKeeps DEF Keeps
  <1>2. After(w, ReloadAfterCommit(w, quit))
    BY <1>1, ReloadAfterCommitIs DEF After, LeavesFits, Begun
  <1> QED
    BY <1>2, AfterKeeps

LEMMA FormSaveResultIs ==
    ASSUME NEW u, Idle(u), u.screen = "form", u.last <= MaxOperations,
           NEW quit \in BOOLEAN, NEW result, NEW v \in FormSaveResult(u, quit, result)
    PROVE  After(u, v)
  <1>1. u \in Models /\ ModelFits(u) /\ u.leave \in BOOLEAN /\ ~u.startup.present
    BY IdleIs DEF Idle, ModelFits, Models
  <1>2. CASE result = "ok"
    <2> DEFINE w == IF u.modal.kind = "unsaved" THEN CloseModal(u) ELSE u
    <2>1. /\ ModelFits(w) /\ Keeps(u, w) /\ w.screen = "form" /\ Len(w.under) <= 1
      BY <1>1, CloseModalIs, Len(<<>>) = 0 DEF Keeps, Idle
    <2>2. v = ReloadAfterCommit(CloseForm(w), quit \/ u.leave)
      BY <1>2 DEF FormSaveResult
    <2> HIDE DEF w
    <2>3. MayClose(w)
      BY <1>1, <2>1 DEF MayClose, Keeps
    <2>4. /\ ModelFits(CloseForm(w)) /\ Keeps(w, CloseForm(w)) /\ CloseForm(w).under = w.under
      BY <2>1, <2>3, CloseFormIs
    <2>5. Keeps(u, CloseForm(w))
      BY <2>1, <2>4 DEF Keeps
    <2> QED
      BY <1>1, <2>1, <2>2, <2>4, <2>5, ReloadAfter
  <1>3. CASE result = "canceled"
    <2> DEFINE w == [u EXCEPT !.leave = FALSE]
    <2>1. v = QuitIf(quit, w)
      BY <1>3 DEF FormSaveResult
    <2>2. /\ w \in Models /\ Keeps(u, w)
          /\ w.screen = u.screen /\ w.under = u.under /\ w.modal.kind = u.modal.kind
      BY <1>1 DEF Models, Modals, Keeps
    <2> QED
      BY <2>1, <2>2, EditedAfter
  <1>4. CASE result \notin {"ok", "canceled"}
    <2>1. PICK c \in {FALSE, result = "conflict"} :
             v = [u EXCEPT !.leave = FALSE, !.conflict = c,
                           !.modal.blocked = @ \/ (u.modal.kind = "unsaved" /\ c)]
      BY <1>4 DEF FormSaveResult
    <2> DEFINE b == u.modal.blocked \/ (u.modal.kind = "unsaved" /\ c)
               m == [u.modal EXCEPT !.blocked = b]
    <2>2. c \in BOOLEAN /\ b \in BOOLEAN
      OBVIOUS
    <2>3. m \in Modals /\ m.kind = u.modal.kind
      BY <1>1, <2>2 DEF Models, Modals
    <2>4. v = [[[u EXCEPT !.leave = FALSE] EXCEPT !.conflict = c] EXCEPT !.modal = m]
      BY <1>1, <2>1 DEF Models
    <2> HIDE DEF m
    <2>5. /\ v \in Models /\ Keeps(u, v)
          /\ v.screen = u.screen /\ v.under = u.under /\ v.modal = m
      BY <1>1, <2>2, <2>3, <2>4 DEF Models, Keeps
    <2> QED
      BY <2>3, <2>5, EditedAfter
  <1> QED
    BY <1>2, <1>3, <1>4

LEMMA OpenedAfter ==
    ASSUME NEW u, Idle(u), NEW k \in ModalKinds, k \notin {"start", "quit"}
    PROVE  LET w == OpenModal(u, Modal(k, FALSE)) IN
           /\ Idle(w) /\ Keeps(u, w) /\ After(u, w)
           /\ \A quit \in BOOLEAN : After(u, QuitIf(quit, w))
  <1> DEFINE w == OpenModal(u, Modal(k, FALSE))
  <1>1. ModelFits(w) /\ Keeps(u, w)
    BY OpenModalIs DEF Idle
  <1>2. w.under = u.under
    BY DEF OpenModal, Idle, ModelFits, Models
  <1> HIDE DEF w
  <1>3. Idle(w) /\ \A v : After(w, v) => After(u, v)
    BY <1>1, <1>2, AfterKeeps DEF Idle
  <1> QED
    BY <1>1, <1>3, AfterIs DEF w

LEMMA ClosedAfter ==
    ASSUME NEW u, Idle(u)
    PROVE  /\ Idle(CloseModal(u)) /\ Keeps(u, CloseModal(u)) /\ After(u, CloseModal(u))
           /\ \A v : After(CloseModal(u), v) => After(u, v)
  <1>1. ModelFits(CloseModal(u)) /\ Keeps(u, CloseModal(u)) /\ Len(CloseModal(u).under) = 0
    BY CloseModalIs, Len(<<>>) = 0 DEF Idle
  <1> QED
    BY <1>1, AfterKeeps, AfterIs

LEMMA DialogSaveResultIs ==
    ASSUME NEW u, Idle(u), u.last <= MaxOperations,
           NEW quit \in BOOLEAN, NEW result, NEW v \in DialogSaveResult(u, quit, result)
    PROVE  After(u, v)
  <1>1. \/ v = QuitIf(quit, OpenModal(u, Modal("confirm", FALSE)))
        \/ v = ReloadAfterCommit(CloseModal(u), quit)
        \/ v = QuitIf(quit, u)
        \/ v = Failed(u, result)
    BY DEF DialogSaveResult
  <1>2. After(u, QuitIf(quit, OpenModal(u, Modal("confirm", FALSE))))
    BY OpenedAfter, "confirm" \in ModalKinds \ {"start", "quit"} DEF ModalKinds
  <1>3. After(u, ReloadAfterCommit(CloseModal(u), quit))
    BY ReloadAfter, ClosedAfter DEF Idle
  <1> QED
    BY <1>1, <1>2, <1>3, AfterIs, FailedIs

LEMMA RecoveryResultIs ==
    ASSUME NEW u, Idle(u), NEW quit \in BOOLEAN, NEW result,
           NEW v \in RecoveryResult(u, quit, result)
    PROVE  After(u, v)
  <1>1. u \in Models /\ ModelFits(u)
    BY DEF Idle, ModelFits
  <1>2. \/ v = RequestQuit(u)
        \/ v = [[CloseModal(u) EXCEPT !.screen = "form"] EXCEPT !.failed = TRUE]
        \/ v = [u EXCEPT !.modal.recovery = "confirming"]
        \/ v = [u EXCEPT !.modal.recovery = "blocked"]
    BY DEF RecoveryResult
  <1>3. CASE v = RequestQuit(u)
    BY <1>3, AfterIs DEF QuitIf
  <1>4. CASE v = [[CloseModal(u) EXCEPT !.screen = "form"] EXCEPT !.failed = TRUE]
    <2> DEFINE w == CloseModal(u)
    <2>1. /\ Idle(w) /\ Keeps(u, w) /\ w \in Models /\ ModelFits(w)
          /\ w.under = <<>> /\ w.modal = NoModal
      BY <1>1, ClosedAfter, CloseModalIs DEF ModelFits
    <2> HIDE DEF w
    <2>2. /\ v \in Models /\ Keeps(w, v) /\ v.under = <<>> /\ v.modal = NoModal
      BY <1>4, <2>1 DEF Models, Keeps, w
    <2>3. OperationFits(v) /\ PromptFits(v) /\ StartupFits(v)
      BY <2>1, <2>2, KeepsFits, IdleIs DEF ModelFits
    <2>4. DialogFits(v)
      BY <2>2, NoModal.kind = "none", Len(<<>>) = 0 DEF DialogFits, NoModal, Modal
    <2> QED
      BY <2>1, <2>2, <2>3, <2>4, AfterIs DEF ModelFits, Keeps
  <1>5. ASSUME NEW r \in {"confirming", "blocked"}, v = [u EXCEPT !.modal.recovery = r]
        PROVE  After(u, v)
    <2>1. /\ v \in Models /\ Keeps(u, v)
          /\ v.screen = u.screen /\ v.under = u.under /\ v.modal.kind = u.modal.kind
      BY <1>1, <1>5 DEF Models, Modals, Keeps
    <2> QED
      BY <2>1, EditedAfter
  <1> QED
    BY <1>2, <1>3, <1>4, <1>5

LEMMA TunnelHostResultIs ==
    ASSUME NEW u, Idle(u), NEW quit \in BOOLEAN, NEW result,
           NEW v \in TunnelHostResult(u, quit, result)
    PROVE  After(u, v)
  <1>1. u \in Models /\ ModelFits(u)
    BY DEF Idle, ModelFits
  <1>2. v = RequestQuit(u) \/ v = [u EXCEPT !.screen = "tunnelform"] \/ v = u
    BY DEF TunnelHostResult
  <1>3. CASE v = [u EXCEPT !.screen = "tunnelform"]
    <2>1. /\ v \in Models /\ Keeps(u, v) /\ v.screen = "tunnelform"
          /\ v.under = u.under /\ v.modal = u.modal
      BY <1>1, <1>3 DEF Models, Keeps
    <2>2. OperationFits(v) /\ PromptFits(v) /\ StartupFits(v)
      BY <1>1, <2>1, KeepsFits, IdleIs DEF ModelFits
    <2>3. DialogFits(v)
      BY <1>1, <2>1 DEF DialogFits, ModelFits, Keeps
    <2> QED
      BY <2>1, <2>2, <2>3, AfterIs DEF ModelFits
  <1> QED
    BY <1>2, <1>3, AfterIs DEF QuitIf

LEMMA SessionResultIs ==
    ASSUME NEW u, Idle(u), NEW quit \in BOOLEAN, NEW canceled \in BOOLEAN, NEW result,
           result = "closed" /\ quit => ~Live,
           NEW v \in SessionResult(u, quit, canceled, result)
    PROVE  After(u, v)
  <1> DEFINE closed == IF u.modal.kind = "connect" THEN CloseModal(u) ELSE u
  <1>1. /\ Idle(closed) /\ Keeps(u, closed) /\ After(u, closed)
        /\ \A w : After(closed, w) => After(u, w)
    BY ClosedAfter, AfterIs DEF Keeps
  <1>2. "error" \in ModalKinds /\ "sshfailure" \in ModalKinds
    BY DEF ModalKinds
  <1>3. CASE result = "closed"
    <2>1. v = IF quit THEN CloseAndQuit(closed) ELSE closed
      BY <1>3 DEF SessionResult
    <2> HIDE DEF closed
    <2>2. CASE quit
      <3>1. ModelFits(closed) /\ closed.operation.kind = "none" /\ closed.security.kind = "none"
        BY <1>1, IdleIs DEF Idle
      <3>2. After(closed, CloseAndQuit(closed))
        BY <1>3, <2>2, <3>1, CloseAndQuitIs DEF After, Kept, LeavesFits
      <3> QED
        BY <1>1, <2>1, <2>2, <3>2
    <2> QED
      BY <1>1, <2>1, <2>2
  <1>4. CASE v = QuitIf(quit, u)
    BY <1>4, AfterIs
  <1>5. CASE result = "conflict"
    <2>1. PICK k \in {"error", "sshfailure"} :
             v = [OpenModal(u, Modal(k, FALSE)) EXCEPT
                    !.modal.blocked = @ \/ k = "error",
                    !.modal.recovery = IF @ = "idle" /\ k = "sshfailure" THEN "blocked" ELSE @]
      BY <1>5 DEF SessionResult
    <2> DEFINE w == OpenModal(u, Modal(k, FALSE))
    <2>2. Idle(w) /\ Keeps(u, w) /\ w \in Models
      BY <1>2, OpenedAfter DEF Idle, ModelFits
    <2> HIDE DEF w
    <2>3. v = [w EXCEPT !.modal.blocked = @ \/ k = "error",
                        !.modal.recovery = IF @ = "idle" /\ k = "sshfailure" THEN "blocked" ELSE @]
      BY <2>1 DEF w
    <2>4. /\ v \in Models /\ Keeps(w, v)
          /\ v.screen = w.screen /\ v.under = w.under /\ v.modal.kind = w.modal.kind
      BY <2>2, <2>3 DEF Models, Modals, Keeps
    <2>5. After(w, v)
      BY <2>2, <2>4, EditedAfter
    <2> QED
      BY <2>2, <2>5, AfterKeeps DEF Idle
  <1>6. CASE \/ v = QuitIf(quit, OpenModal(closed, Modal("sshfailure", FALSE)))
             \/ v = OpenModal(closed, Modal("error", FALSE))
    <2> HIDE DEF closed
    <2> QED
      BY <1>1, <1>2, <1>6, OpenedAfter
  <1> QED
    BY <1>3, <1>4, <1>5, <1>6 DEF SessionResult

---------------------------------------------------------------------------
(* What a key or a result leaves, seen from the state it is handled in.     *)

\* The operation goes on; or it is over, and the next one may have been begun,
\* but for that of a tunnel, which only its startup ends.
Handles(v) ==
    /\ ModelFits(v)
    /\ v.security.kind \in {ui.security.kind, "none"}
    /\ LeavesFits(ui, v)
    /\ \/ Kept(ui, v)
       \/ /\ ui.operation.kind # "tunnel"
          /\ v.security.kind = "none"
          /\ (v.last = ui.last /\ v.operation.kind = "none") \/ Begun(ui, v)

LEMMA CompleteIs ==
    ASSUME NEW u, ModelFits(u), u.operation.kind \notin {"none", "tunnel"}
    PROVE  LET w == CompleteOperation(u) IN
           /\ u.security.kind = "none" => Idle(w)
           /\ Idle(ClearSecurity(w)) /\ ClearSecurity(w).leaving = u.leaving
           /\ ClearSecurity(w).last = u.last /\ ClearSecurity(w).modal = u.modal
           /\ w.last = u.last /\ w.security = u.security /\ w.startup = u.startup
           /\ w.leaving = u.leaving /\ w.modal = u.modal /\ w.under = u.under
           /\ w.screen = u.screen /\ w.operation = NoOperation
  <1> DEFINE w == CompleteOperation(u)
             x == ClearSecurity(w)
  <1>1. NoOperation \in Operations /\ NoOperation.kind = "none"
    BY UIAssumption DEF NoOperation, Operations, OperationIds
  <1>2. NoSecurity \in Prompts /\ NoSecurity.kind = "none"
    BY DEF NoSecurity, Prompts
  <1>3. /\ w \in Models /\ w.last = u.last /\ w.security = u.security /\ w.startup = u.startup
        /\ w.leaving = u.leaving /\ w.modal = u.modal /\ w.under = u.under
        /\ w.screen = u.screen /\ w.operation = NoOperation
    BY <1>1 DEF CompleteOperation, ModelFits, Models
  <1> HIDE DEF w
  <1>4. /\ x \in Models /\ x.last = u.last /\ x.security = NoSecurity /\ x.startup = u.startup
        /\ x.leaving = u.leaving /\ x.modal = u.modal /\ x.under = u.under
        /\ x.screen = u.screen /\ x.operation = NoOperation
    BY <1>2, <1>3 DEF ClearSecurity, Models
  <1> HIDE DEF x
  <1>5. ~u.startup.present /\ u.last \in 1..(MaxOperations + 1) /\ Len(u.under) <= 1
    BY DEF ModelFits, StartupFits, OperationFits, DialogFits
  <1>6. u.under \in Seq(Modals) /\ Len(u.under) \in Nat
    BY DEF ModelFits, Models
  <1>7. ASSUME NEW y \in Models, y.last = u.last, y.security.kind = "none", y.startup = u.startup,
               y.modal = u.modal, y.under = u.under, y.screen = u.screen,
               y.operation = NoOperation
        PROVE  Idle(y)
    <2>1. OperationFits(y) /\ StartupFits(y) /\ PromptFits(y)
      BY <1>1, <1>5, <1>7 DEF OperationFits, StartupFits, PromptFits, ModelFits
    <2>2. DialogFits(y)
      BY <1>1, <1>5, <1>6, <1>7 DEF DialogFits, ModelFits
    <2> QED
      BY <1>1, <1>5, <1>7, <2>1, <2>2 DEF Idle, ModelFits
  <1>8. u.security.kind = "none" => Idle(w)
    BY <1>3, <1>7
  <1>9. Idle(x)
    BY <1>2, <1>4, <1>7
  <1> QED
    BY <1>3, <1>4, <1>8, <1>9 DEF w, x

LEMMA ResultsAre ==
    ASSUME IInv, NEW c \in cmds, c.kind # "tunnel", c.kind = "remember" => c.stage # "waiting",
           Applies(c), ui.leaving # "left", NEW result \in Outcomes(c),
           NEW v \in Results(c, result)
    PROVE  Handles(v)
  <1> DEFINE u == CompleteOperation(ui)
             x == ClearSecurity(u)
             quit == ui.operation.quit
  <1>1. /\ ModelFits(ui) /\ ui.operation.kind = c.kind /\ ui.operation.id = c.id
        /\ c \in Commands /\ ui \in Models /\ ui.operation \in Operations
    BY DEF IInv, TypeOK, Applies, Accepts, Models
  <1>2. c.kind \in OperationKinds \ {"tunnel"} /\ quit \in BOOLEAN /\ ui.operation.canceled \in BOOLEAN
    BY <1>1 DEF Commands, Operations
  <1>3. ui.operation.kind \notin {"none", "tunnel"}
    BY <1>1, <1>2 DEF OperationKinds
  <1>4. /\ ui.security.kind = "none" => Idle(u)
        /\ Idle(x) /\ x.leaving = ui.leaving /\ x.last = ui.last /\ x.modal = ui.modal
        /\ u.last = ui.last /\ u.leaving = ui.leaving /\ u.screen = ui.screen
    BY <1>1, <1>3, CompleteIs
  <1>5. c.kind # "ssh" => ui.security.kind = "none"
    <2>1. ui.security.kind # "password"
      BY <1>1 DEF IInv, WaitersFit, Accepts, ModelFits, PromptFits
    <2>2. c.kind # "ssh" => ui.security.kind \notin {"trust", "secret"}
      BY <1>1 DEF ModelFits, PromptFits
    <2> QED
      BY <1>1, <2>1, <2>2 DEF Models, Prompts
  <1>6. c.kind \in {"save", "remember"} => ui.last <= MaxOperations
    BY <1>1 DEF ModelFits, OperationFits
  <1>7. result = "closed" /\ quit => ~Live
    <2>1. result = "closed" => c.stage = "ended"
      BY DEF Outcomes
    <2> QED
      BY <1>1, <2>1 DEF IInv, ShellFits, Accepts
  <1> HIDE DEF u, x
  <1>8. \E w : Idle(w) /\ w.last = ui.last /\ w.leaving = ui.leaving /\ After(w, v)
    <2>1. CASE c.kind = "reload"
      <3>1. v \in ReloadResult(u, quit, result)
        BY <2>1 DEF Results, u
      <3> QED
        BY <1>2, <1>4, <1>5, <2>1, <3>1, ReloadResultIs
    <2>2. CASE c.kind \in {"save", "remember"} /\ u.screen = "form"
      <3>1. v \in FormSaveResult(u, quit, result)
        BY <2>2 DEF Results, u
      <3> QED
        BY <1>2, <1>4, <1>5, <1>6, <2>2, <3>1, FormSaveResultIs
    <2>3. CASE c.kind \in {"save", "remember"} /\ u.screen # "form"
      <3>1. v \in DialogSaveResult(u, quit, result)
        BY <2>3 DEF Results, u
      <3> QED
        BY <1>2, <1>4, <1>5, <1>6, <2>3, <3>1, DialogSaveResultIs
    <2>4. CASE c.kind = "recover"
      <3>1. v \in RecoveryResult(u, quit, result)
        BY <2>4 DEF Results, u
      <3> QED
        BY <1>2, <1>4, <1>5, <2>4, <3>1, RecoveryResultIs
    <2>5. CASE c.kind = "rehost"
      <3>1. v \in TunnelHostResult(u, quit, result)
        BY <2>5 DEF Results, u
      <3> QED
        BY <1>2, <1>4, <1>5, <2>5, <3>1, TunnelHostResultIs
    <2>6. CASE c.kind = "ssh"
      <3>1. v \in SessionResult(x, quit, ui.operation.canceled, result)
        BY <2>6 DEF Results, u, x
      <3> QED
        BY <1>2, <1>4, <1>7, <3>1, SessionResultIs
    <2> QED
      BY <1>2, <2>1, <2>2, <2>3, <2>4, <2>5, <2>6 DEF OperationKinds
  <1> QED
    BY <1>1, <1>3, <1>8 DEF Handles, After, LeavesFits, Begun

LEMMA AfterHandles ==
    ASSUME ui.operation.kind # "tunnel",
           NEW w, w.last = ui.last, w.leaving = ui.leaving, NEW v, After(w, v)
    PROVE  Handles(v)
  BY DEF Handles, After, LeavesFits, Begun

---------------------------------------------------------------------------
(* Keys.                                                                    *)

\* A dialog, a form or the browser owns the keyboard when nothing runs.
LEMMA OwnerIs ==
    ASSUME NEW u, ModelFits(u), Owner(u) \in {"modal", "form", "tunnelform", "browser"}
    PROVE  /\ Idle(u) /\ u.modal.kind # "quit" /\ u.under = <<>>
           /\ Owner(u) = "modal" <=> u.modal.kind # "none"
           /\ Owner(u) \in {"form", "tunnelform", "browser"} => u.modal.kind = "none" /\ u.screen = Owner(u)
  <1>1. u.screen \in {"browser", "form", "tunnelform"}
    BY DEF ModelFits, Models
  <1>2. u.modal.kind # "quit" /\ u.security.kind = "none" /\ u.operation.kind = "none"
    BY DEF Owner
  <1>3. u.under = <<>>
    BY <1>2 DEF ModelFits, DialogFits
  <1> QED
    BY <1>1, <1>2, <1>3, Len(<<>>) = 0 DEF Idle, Owner

\* What a key does before the operation is over.
Passes(u, v) ==
    /\ ModelFits(v) /\ Kept(u, v)
    /\ v.security.kind \in {u.security.kind, "none"} /\ LeavesFits(u, v)

LEMMA QuitPressedIs ==
    ASSUME NEW u, ModelFits(u)
    PROVE  \/ Passes(u, QuitPressed(u))
           \/ Idle(u) /\ After(u, QuitPressed(u))
  <1> DEFINE v == QuitPressed(u)
  <1>1. CASE Owner(u) = "quit"
    BY <1>1 DEF QuitPressed, Passes, Kept, LeavesFits
  <1>2. CASE Owner(u) \in {"security", "operation"}
    <2>1. u.modal.kind # "quit"
      BY <1>2 DEF Owner
    <2>2. CASE Live
      <3>1. v = RequestQuit(u)
        BY <1>2, <2>2 DEF QuitPressed
      <3> QED
        BY <2>1, <3>1, RequestQuitIs DEF MayAsk, Passes, LeavesFits
    <2>3. CASE ~Live
      <3>1. \/ v = u \/ v = RequestCancellation(u, TRUE)
            \/ v = RequestCancellation(ClearSecurity(u), TRUE)
        BY <1>2, <2>3 DEF QuitPressed
      <3>2. Passes(u, u)
        BY DEF Passes, Kept, LeavesFits
      <3>3. Passes(u, RequestCancellation(u, TRUE))
        BY <2>3, RequestCancellationIs DEF Passes, Kept, LeavesFits
      <3>4. Passes(u, RequestCancellation(ClearSecurity(u), TRUE))
        <4> DEFINE w == ClearSecurity(u)
        <4>1. /\ ModelFits(w) /\ w.security.kind = "none" /\ w.last = u.last
              /\ w.operation = u.operation /\ w.startup = u.startup /\ w.leaving = u.leaving
          BY ClearSecurityIs
        <4> HIDE DEF w
        <4>2. Passes(w, RequestCancellation(w, TRUE))
          BY <2>3, <4>1, RequestCancellationIs DEF Passes, Kept, LeavesFits
        <4> QED
          BY <4>1, <4>2 DEF Passes, Kept, LeavesFits, w
      <3> QED
        BY <3>1, <3>2, <3>3, <3>4
    <2> QED
      BY <2>2, <2>3
  <1>3. CASE Owner(u) \in {"modal", "form", "tunnelform", "browser"}
    <2>1. /\ Idle(u) /\ After(u, u) /\ After(u, RequestQuit(u))
          /\ Owner(u) # "modal" => u.modal.kind = "none"
      BY <1>3, OwnerIs, AfterIs DEF QuitIf
    <2>2. \A k \in {"unsaved", "discard"} : After(u, OpenModal(u, Modal(k, TRUE)))
      <3> SUFFICES ASSUME NEW k \in {"unsaved", "discard"}
                   PROVE  After(u, OpenModal(u, Modal(k, TRUE)))
        OBVIOUS
      <3> QED
        BY <2>1, AfterIs, OpenModalIs, k \in ModalKinds DEF ModalKinds, Idle
    <2>3. Owner(u) = "tunnelform" => After(u, RequestQuit(CloseForm(u)))
      <3> SUFFICES ASSUME Owner(u) = "tunnelform"
                   PROVE  After(u, RequestQuit(CloseForm(u)))
        OBVIOUS
      <3>1. MayClose(u)
        BY <2>1, IdleIs DEF MayClose
      <3>2. Idle(CloseForm(u)) /\ \A w : After(CloseForm(u), w) => After(u, w)
        BY <2>1, <3>1, CloseFormIs, AfterKeeps DEF Idle
      <3> QED
        BY <3>2, AfterIs DEF QuitIf
    <2> QED
      BY <1>3, <2>1, <2>2, <2>3 DEF QuitPressed, OpenUnsaved
  <1>4. Owner(u) \in {"quit", "security", "operation", "modal", "form", "tunnelform", "browser"}
    BY DEF Owner, ModelFits, Models
  <1> QED
    BY <1>1, <1>2, <1>3, <1>4

\* The operation that is abandoned under the dialog of a failed start.
LEMMA RepairedIs ==
    ASSUME ModelFits(ui)
    PROVE  /\ ModelFits(Repaired) /\ Repaired.modal = ui.modal
           /\ Repaired.last = ui.last /\ Repaired.leaving = ui.leaving
           /\ \/ Repaired = ui
              \/ ui.operation.kind # "tunnel" /\ Idle(Repaired) /\ ui.security.kind = "none"
                 /\ Owner(Repaired) = "modal"
  <1>1. CASE Repaired = ui
    BY <1>1
  <1>2. CASE Repaired # ui
    <2>1. /\ Repaired = CompleteOperation(ui) /\ ui.modal.kind = "sshfailure"
          /\ ui.operation.kind \notin {"none", "tunnel"} /\ ui.security.kind = "none"
      BY <1>2 DEF Repaired
    <2> DEFINE w == CompleteOperation(ui)
    <2>2. /\ Idle(w) /\ w.last = ui.last /\ w.modal = ui.modal /\ w.leaving = ui.leaving
          /\ w.security = ui.security /\ w.operation = NoOperation
      BY <2>1, CompleteIs
    <2> HIDE DEF w
    <2>3. Owner(w) = "modal"
      BY <2>1, <2>2, NoOperation.kind = "none" DEF Owner, NoOperation
    <2> QED
      BY <2>1, <2>2, <2>3 DEF Idle, w
  <1> QED
    BY <1>1, <1>2

\* A key is handled in the Model, or in the one that was repaired.
LEMMA RepairedHandles ==
    ASSUME ModelFits(ui), NEW v,
           Passes(Repaired, v) \/ (Idle(Repaired) /\ After(Repaired, v))
    PROVE  Handles(v)
  <1>1. CASE Idle(Repaired) /\ After(Repaired, v)
    <2>1. ui.operation.kind # "tunnel"
      BY <1>1, RepairedIs DEF Idle
    <2> QED
      BY <1>1, <2>1, RepairedIs, AfterHandles
  <1>2. CASE Passes(Repaired, v) /\ Repaired = ui
    BY <1>2 DEF Passes, Handles
  <1>3. CASE Passes(Repaired, v) /\ Repaired # ui
    <2>1. /\ ui.operation.kind # "tunnel" /\ Idle(Repaired) /\ ui.security.kind = "none"
          /\ Repaired.last = ui.last /\ Repaired.leaving = ui.leaving
          /\ Repaired.operation.kind = "none" /\ Repaired.security.kind = "none"
      BY <1>3, RepairedIs, IdleIs DEF Idle
    <2> QED
      BY <1>3, <2>1 DEF Passes, Kept, Handles, LeavesFits
  <1> QED
    BY <1>1, <1>2, <1>3

LEMMA BeginAfter ==
    ASSUME NEW u, Idle(u), NEW w, Idle(w), Keeps(u, w), MayBegin(u),
           NEW kind \in OperationKinds
    PROVE  After(u, Begin(w, kind)) /\ Begin(w, kind).operation.kind = kind
  <1>1. w.last = u.last /\ w.last < MaxOperations /\ w.last <= MaxOperations /\ w.leaving = u.leaving
    BY UIAssumption DEF Keeps, MayBegin, Idle, ModelFits, OperationFits
  <1> QED
    BY <1>1, BeginIs DEF After, Begun, LeavesFits

LEMMA KeepsItself == ASSUME NEW u PROVE Keeps(u, u)
  BY DEF Keeps

LEMMA BeginsAfter ==
    ASSUME NEW u, Idle(u), NEW w, Idle(w), Keeps(u, w), MayBegin(u)
    PROVE  \A v \in ReloadBegins(w) \cup SaveBegins(w) \cup ChangeBegins(w)
                    \cup ConnectBegins(w) \cup RetryBegins(w) : After(u, v)
  BY BeginAfter DEF OperationKinds, ReloadBegins, SaveBegins, ChangeBegins, ConnectBegins,
     RetryBegins

LEMMA SaveFormIs ==
    ASSUME NEW u, Idle(u), MayBegin(u), NEW v \in SaveForm(u)
    PROVE  /\ After(u, v)
           /\ v.operation.kind = "none" =>
                 /\ v \in Models /\ Keeps(u, v) /\ v.screen = u.screen
                 /\ v.under = u.under /\ v.modal = u.modal
  <1>1. u \in Models /\ ModelFits(u) /\ u.operation.kind = "none"
    BY DEF Idle, ModelFits
  <1>2. CASE v \in {[u EXCEPT !.leave = FALSE], u, [u EXCEPT !.conflict = TRUE]}
    <2>1. /\ v \in Models /\ Keeps(u, v) /\ v.screen = u.screen
          /\ v.under = u.under /\ v.modal = u.modal
      BY <1>1, <1>2 DEF Models, Keeps
    <2> QED
      BY <2>1, EditedAfter
  <1>3. CASE v \in SaveBegins(u)
    BY <1>3, BeginAfter, KeepsItself DEF SaveBegins, OperationKinds
  <1> QED
    BY <1>2, <1>3 DEF SaveForm

LEMMA SaveUnsavedIs ==
    ASSUME NEW u, Idle(u), MayBegin(u), NEW v \in SaveUnsaved(u)
    PROVE  After(u, v)
  <1> DEFINE w == [u EXCEPT !.leave = u.modal.quit]
  <1>1. u \in Models /\ w \in Models /\ Keeps(u, w) /\ w.screen = u.screen
        /\ w.under = u.under /\ w.modal = u.modal
    BY DEF Idle, ModelFits, Models, Modals, Keeps
  <1>2. PICK x \in SaveForm(w) :
           v = IF x.operation.kind = "none" /\ x.conflict THEN [x EXCEPT !.modal.blocked = TRUE] ELSE x
    BY DEF SaveUnsaved
  <1> HIDE DEF w
  <1>3. Idle(w) /\ MayBegin(w) /\ (\A y : After(w, y) => After(u, y))
    BY <1>1, EditedAfter, AfterKeeps DEF Idle, Keeps, MayBegin
  <1>4. After(w, x)
    BY <1>2, <1>3, SaveFormIs
  <1>5. CASE x.operation.kind = "none" /\ v = [x EXCEPT !.modal.blocked = TRUE]
    <2>1. /\ x \in Models /\ Keeps(w, x) /\ x.screen = w.screen
          /\ x.under = w.under /\ x.modal = w.modal
      BY <1>2, <1>3, <1>5, SaveFormIs
    <2>2. /\ v \in Models /\ Keeps(w, v) /\ v.screen = w.screen
          /\ v.under = w.under /\ v.modal.kind = w.modal.kind
      BY <1>5, <2>1 DEF Models, Modals, Keeps
    <2> QED
      BY <1>3, <2>2, EditedAfter
  <1>6. CASE v = x
    BY <1>3, <1>4, <1>6
  <1> QED
    BY <1>2, <1>5, <1>6

LEMMA StartTunnelIs ==
    ASSUME NEW u, Idle(u), MayBegin(u), u.screen = "tunnelform", NEW v \in StartTunnel(u)
    PROVE  After(u, v)
  <1> DEFINE w == Begin(u, "tunnel")
             s == [NoStartup EXCEPT !.present = TRUE]
             x == [w EXCEPT !.startup = s]
  <1>1. v = OpenModal(x, Modal("start", FALSE))
    BY DEF StartTunnel
  <1>2. u.last <= MaxOperations /\ u.last < MaxOperations /\ "tunnel" \in OperationKinds
    BY UIAssumption DEF MayBegin, Idle, ModelFits, OperationFits, OperationKinds
  <1>3. /\ ModelFits(w) /\ Begun(u, w) /\ w.operation.kind = "tunnel"
        /\ w.screen = u.screen /\ w.leaving = u.leaving
    BY <1>2, BeginIs
  <1> HIDE DEF w
  <1>4. s \in Startups /\ s.present /\ ~s.stopping /\ s.attempt = 0
    <2>1. NoStartup \in Startups /\ ~NoStartup.stopping /\ NoStartup.attempt = 0
      BY UIAssumption DEF NoStartup, Startups
    <2> QED
      BY <2>1 DEF Startups
  <1> HIDE DEF s
  <1>5. /\ x \in Models /\ x.startup = s /\ x.last = w.last /\ x.operation = w.operation
        /\ x.security = w.security /\ x.leaving = w.leaving /\ x.screen = w.screen
        /\ x.modal = w.modal /\ x.under = w.under
    BY <1>3, <1>4 DEF ModelFits, Models
  <1> HIDE DEF x
  <1>6. OperationFits(x) /\ StartupFits(x) /\ PromptFits(x) /\ DialogFits(x)
    BY <1>3, <1>4, <1>5 DEF ModelFits, OperationFits, StartupFits, PromptFits, DialogFits
  <1>7. ModelFits(v) /\ Keeps(x, v)
    BY <1>1, <1>3, <1>5, <1>6, OpenModalIs DEF ModelFits, ModalKinds
  <1> QED
    BY <1>3, <1>4, <1>5, <1>7 DEF After, Begun, Keeps, LeavesFits

LEMMA RetryFailureIs ==
    ASSUME NEW u, Idle(u), MayBegin(u), NEW v \in RetryFailure(u)
    PROVE  After(u, v)
  <1>1. u \in Models
    BY DEF Idle, ModelFits
  <1>2. CASE v \in RecoveryBegins(u)
    <2> DEFINE w == [u EXCEPT !.modal.recovery = "resolving"]
    <2>1. /\ w \in Models /\ Keeps(u, w)
          /\ w.screen = u.screen /\ w.under = u.under /\ w.modal.kind = u.modal.kind
      BY <1>1 DEF Models, Modals, Keeps
    <2>2. Idle(w)
      BY <2>1, EditedAfter
    <2>3. v = Begin(w, "recover")
      BY <1>2 DEF RecoveryBegins
    <2> HIDE DEF w
    <2> QED
      BY <2>1, <2>2, <2>3, BeginAfter DEF OperationKinds
  <1>3. CASE v \in ConnectBegins(CloseModal(u))
    BY <1>3, ClosedAfter, BeginsAfter
  <1>4. CASE v \in ReloadBegins(u)
    BY <1>4, KeepsItself, BeginsAfter
  <1> QED
    BY <1>2, <1>3, <1>4 DEF RetryFailure

LEMMA ModalBeginsAre ==
    ASSUME NEW u, Idle(u), MayBegin(u), NEW v \in ModalBegins(u)
    PROVE  After(u, v)
  <1> DEFINE w == CloseModal(u)
  <1>1. Idle(w) /\ Keeps(u, w) /\ MayBegin(w) /\ w.screen = u.screen
        /\ \A x : After(w, x) => After(u, x)
    BY ClosedAfter, CloseModalIs DEF Keeps, MayBegin, Idle
  <1>2. \/ v \in ReloadBegins(u) \cup ChangeBegins(u) \cup ConnectBegins(u)
        \/ v \in SaveUnsaved(u)
        \/ v \in ReloadBegins(w) \cup ChangeBegins(w) \cup ConnectBegins(w)
        \/ u.modal.kind = "start" /\ v \in StartTunnel(w)
        \/ v \in RetryFailure(u)
    BY DEF ModalBegins, RetryError
  <1> HIDE DEF w
  <1>3. u.modal.kind = "start" => u.screen = "tunnelform"
    BY DEF Idle, ModelFits, DialogFits
  <1> QED
    BY <1>1, <1>2, <1>3, KeepsItself, BeginsAfter, SaveUnsavedIs, StartTunnelIs, RetryFailureIs

LEMMA ModalEndsAre ==
    ASSUME NEW u, Idle(u), u.modal.kind # "quit", NEW v \in ModalEnds(u)
    PROVE  After(u, v)
  <1> DEFINE w == CloseModal(u)
  <1>1. /\ Idle(w) /\ Keeps(u, w) /\ After(u, w) /\ w.modal.kind = "none" /\ w.under = <<>>
        /\ \A x : After(w, x) => After(u, x)
    BY ClosedAfter, CloseModalIs, NoModal.kind = "none" DEF Idle, NoModal, Modal
  <1>2. MayClose(w) /\ ModelFits(w)
    BY <1>1, IdleIs DEF MayClose, Idle
  <1>3. /\ ModelFits(CloseForm(w)) /\ Keeps(w, CloseForm(w)) /\ CloseForm(w).under = w.under
        /\ ModelFits(CancelForm(w)) /\ Keeps(w, CancelForm(w))
    BY <1>2, CloseFormIs, CancelFormIs
  <1>4. /\ Idle(CloseForm(w)) /\ After(u, CloseForm(w)) /\ After(u, CancelForm(w))
        /\ \A x : After(CloseForm(w), x) => After(u, x)
    BY <1>1, <1>3, AfterIs, AfterKeeps DEF Idle
  <1>5. \A quit \in BOOLEAN : After(u, QuitIf(quit, CloseForm(w)))
    BY <1>4, AfterIs
  <1>6. u \in Models /\ u.modal.quit \in BOOLEAN
    BY DEF Idle, ModelFits, Models, Modals
  <1>7. After(u, [u EXCEPT !.modal.recovery = "idle"])
    <2> DEFINE x == [u EXCEPT !.modal.recovery = "idle"]
    <2>1. /\ x \in Models /\ Keeps(u, x)
          /\ x.screen = u.screen /\ x.under = u.under /\ x.modal.kind = u.modal.kind
      BY <1>6 DEF Models, Modals, Keeps
    <2> QED
      BY <2>1, EditedAfter
  <1>8. v \in {w, CloseForm(w), DiscardChanges(u), DiscardDraft(u), [u EXCEPT !.modal.recovery = "idle"]}
    BY DEF ModalEnds
  <1>9. After(u, DiscardChanges(u)) /\ After(u, DiscardDraft(u))
    <2>1. /\ DiscardChanges(u) = IF u.modal.quit THEN RequestQuit(CloseForm(w)) ELSE CancelForm(w)
          /\ DiscardDraft(u) = QuitIf(u.modal.quit, CloseForm(w))
      BY DEF DiscardChanges, DiscardDraft
    <2>2. After(u, RequestQuit(CloseForm(w)))
      BY <1>5 DEF QuitIf
    <2> HIDE DEF w
    <2> QED
      BY <1>4, <1>5, <1>6, <2>1, <2>2
  <1> QED
    BY <1>1, <1>4, <1>7, <1>8, <1>9

LEMMA ModalKeyIs ==
    ASSUME NEW u, ModelFits(u), Owner(u) = "modal",
           NEW v \in ModalEnds(u) \cup (IF MayBegin(u) THEN ModalBegins(u) ELSE {})
    PROVE  Idle(u) /\ After(u, v)
  BY OwnerIs, ModalEndsAre, ModalBeginsAre

LEMMA FormKeyIs ==
    ASSUME NEW u, ModelFits(u), Owner(u) = "form"
    PROVE  /\ Idle(u) /\ After(u, [u EXCEPT !.dirty = TRUE])
           /\ After(u, IF u.dirty THEN OpenUnsaved(u, FALSE) ELSE CancelForm(u))
           /\ After(u, CloseForm(u))
           /\ MayBegin(u) => \A v \in ReloadBegins(u) \cup SaveForm(u) : After(u, v)
  <1>1. Idle(u) /\ u \in Models /\ MayClose(u)
    BY OwnerIs, IdleIs DEF Idle, ModelFits, MayClose
  <1>2. After(u, [u EXCEPT !.dirty = TRUE])
    <2> DEFINE w == [u EXCEPT !.dirty = TRUE]
    <2>1. /\ w \in Models /\ Keeps(u, w)
          /\ w.screen = u.screen /\ w.under = u.under /\ w.modal.kind = u.modal.kind
      BY <1>1 DEF Models, Keeps
    <2> QED
      BY <1>1, <2>1, EditedAfter
  <1>3. After(u, OpenUnsaved(u, FALSE))
    BY <1>1, AfterIs, OpenModalIs, "unsaved" \in ModalKinds DEF ModalKinds, OpenUnsaved, Idle
  <1>4. After(u, CancelForm(u)) /\ After(u, CloseForm(u))
    BY <1>1, AfterIs, CancelFormIs, CloseFormIs DEF Idle
  <1>5. MayBegin(u) => \A v \in ReloadBegins(u) \cup SaveForm(u) : After(u, v)
    BY <1>1, KeepsItself, BeginsAfter, SaveFormIs
  <1> QED
    BY <1>1, <1>2, <1>3, <1>4, <1>5

LEMMA TunnelFormKeyIs ==
    ASSUME NEW u, ModelFits(u), Owner(u) = "tunnelform"
    PROVE  /\ Idle(u) /\ After(u, [u EXCEPT !.dirty = TRUE])
           /\ After(u, IF u.dirty THEN OpenModal(u, Modal("discard", FALSE)) ELSE CloseForm(u))
           /\ After(u, OpenModal(u, Modal("start", FALSE)))
  <1>1. Idle(u) /\ u \in Models /\ MayClose(u) /\ u.screen = "tunnelform"
    BY OwnerIs, IdleIs DEF Idle, ModelFits, MayClose
  <1>2. After(u, [u EXCEPT !.dirty = TRUE])
    <2> DEFINE w == [u EXCEPT !.dirty = TRUE]
    <2>1. /\ w \in Models /\ Keeps(u, w)
          /\ w.screen = u.screen /\ w.under = u.under /\ w.modal.kind = u.modal.kind
      BY <1>1 DEF Models, Keeps
    <2> QED
      BY <1>1, <2>1, EditedAfter
  <1>3. \A k \in {"discard", "start"} : After(u, OpenModal(u, Modal(k, FALSE)))
    <2> SUFFICES ASSUME NEW k \in {"discard", "start"}
                 PROVE  After(u, OpenModal(u, Modal(k, FALSE)))
      OBVIOUS
    <2> QED
      BY <1>1, AfterIs, OpenModalIs, k \in ModalKinds DEF ModalKinds, Idle
  <1>4. After(u, CloseForm(u))
    BY <1>1, AfterIs, CloseFormIs DEF Idle
  <1> QED
    BY <1>1, <1>2, <1>3, <1>4

LEMMA BrowserKeyIs ==
    ASSUME NEW u, ModelFits(u), Owner(u) = "browser"
    PROVE  /\ Idle(u)
           /\ \A s \in {"form", "tunnelform"} : After(u, [u EXCEPT !.screen = s])
           /\ \A k \in {"confirm", "connect", "stop"} : After(u, OpenModal(u, Modal(k, FALSE)))
           /\ MayBegin(u) =>
                 \A v \in ReloadBegins(u) \cup ChangeBegins(u) \cup RetryBegins(u) : After(u, v)
  <1>1. Idle(u) /\ u \in Models /\ ModelFits(u) /\ u.under = <<>> /\ u.modal.kind = "none"
    BY OwnerIs DEF Idle, ModelFits
  <1>2. \A s \in {"form", "tunnelform"} : After(u, [u EXCEPT !.screen = s])
    <2> SUFFICES ASSUME NEW s \in {"form", "tunnelform"} PROVE After(u, [u EXCEPT !.screen = s])
      OBVIOUS
    <2> DEFINE w == [u EXCEPT !.screen = s]
    <2>1. w \in Models /\ Keeps(u, w) /\ w.under = u.under /\ w.modal = u.modal
      BY <1>1 DEF Models, Keeps
    <2> HIDE DEF w
    <2>2. OperationFits(w) /\ PromptFits(w) /\ StartupFits(w)
      BY <1>1, <2>1, KeepsFits, IdleIs DEF ModelFits
    <2>3. DialogFits(w)
      BY <1>1, <2>1, Len(<<>>) = 0 DEF DialogFits
    <2>4. ModelFits(w)
      BY <2>1, <2>2, <2>3 DEF ModelFits
    <2>5. After(u, w)
      BY <1>1, <2>1, <2>4, AfterIs
    <2> QED
      BY <2>5 DEF w
  <1>3. \A k \in {"confirm", "connect", "stop"} : After(u, OpenModal(u, Modal(k, FALSE)))
    <2> SUFFICES ASSUME NEW k \in {"confirm", "connect", "stop"}
                 PROVE  After(u, OpenModal(u, Modal(k, FALSE)))
      OBVIOUS
    <2> QED
      BY <1>1, AfterIs, OpenModalIs, k \in ModalKinds DEF ModalKinds
  <1> QED
    BY <1>1, <1>2, <1>3, KeepsItself, BeginsAfter

\* The question of leaving: answered with yes, and dismissed.
Uncovered(u) ==
    [u EXCEPT !.modal = IF u.under = <<>> THEN NoModal ELSE Head(u.under),
              !.under = IF u.under = <<>> THEN <<>> ELSE Tail(u.under)]

LEMMA QuitAnsweredIs ==
    ASSUME ModelFits(ui), Owner(ui) = "quit"
    PROVE  Handles(CloseAndQuit(CloseModal(ui))) /\ Handles(Uncovered(ui))
  <1>1. ui.modal.kind = "quit" /\ ui \in Models /\ ui.under \in Seq(Modals)
    BY DEF Owner, ModelFits, Models, Modals
  <1>2. Handles(CloseAndQuit(CloseModal(ui)))
    <2> DEFINE w == CloseModal(ui)
    <2>1. ModelFits(w) /\ Keeps(ui, w)
      BY CloseModalIs
    <2> HIDE DEF w
    <2>2. LET v == CloseAndQuit(w) IN
          /\ ModelFits(v) /\ Kept(w, v) /\ v.security = w.security /\ v.leaving = "closing"
      BY <2>1, CloseAndQuitIs
    <2> QED
      BY <1>1, <2>1, <2>2 DEF Handles, Keeps, Kept, LeavesFits, w
  <1>3. Handles(Uncovered(ui))
    <2> DEFINE m == IF ui.under = <<>> THEN NoModal ELSE Head(ui.under)
               s == IF ui.under = <<>> THEN <<>> ELSE Tail(ui.under)
               v == Uncovered(ui)
    <2>1. NoModal \in Modals /\ NoModal.kind = "none" /\ <<>> \in Seq(Modals) /\ Len(<<>>) = 0
      BY DEF NoModal, Modal, Modals, ModalKinds
    <2>2. CASE ui.under = <<>>
      <3>1. m = NoModal /\ s = <<>>
        BY <2>2
      <3>2. v = [[ui EXCEPT !.modal = m] EXCEPT !.under = s]
        BY <1>1 DEF Uncovered, Models
      <3> HIDE DEF m, s
      <3>3. v \in Models /\ Keeps(ui, v) /\ v.modal = m /\ v.under = s /\ v.screen = ui.screen
        BY <1>1, <2>1, <3>1, <3>2 DEF Models, Keeps
      <3> HIDE DEF v
      <3>4. OperationFits(v) /\ PromptFits(v) /\ StartupFits(v)
        BY <3>3, KeepsFits DEF ModelFits
      <3>5. DialogFits(v)
        BY <2>1, <3>1, <3>3 DEF DialogFits
      <3> QED
        BY <3>3, <3>4, <3>5 DEF ModelFits, Handles, Keeps, Kept, LeavesFits, v
    <2>3. CASE ui.under # <<>>
      <3>1. /\ m = ui.under[1] /\ m \in Modals /\ s \in Seq(Modals)
            /\ Len(s) = Len(ui.under) - 1 /\ Len(ui.under) \in Nat /\ Len(ui.under) > 0
            /\ \A i \in 1..Len(s) : s[i] = ui.under[i + 1]
        BY <1>1, <2>3, Popped
      <3>2. v = [[ui EXCEPT !.modal = m] EXCEPT !.under = s]
        BY <1>1 DEF Uncovered, Models
      <3> HIDE DEF m, s
      <3>3. v \in Models /\ Keeps(ui, v) /\ v.modal = m /\ v.under = s /\ v.screen = ui.screen
        BY <1>1, <3>1, <3>2 DEF Models, Keeps
      <3> HIDE DEF v
      <3>4. OperationFits(v) /\ PromptFits(v) /\ StartupFits(v)
        BY <3>3, KeepsFits DEF ModelFits
      <3>5. /\ Len(ui.under) <= IF ui.operation.kind = "none" THEN 2 ELSE 1
            /\ Len(ui.under) = 2 => ui.under[1].kind = "quit"
            /\ \A i \in 1..Len(ui.under) : ui.under[i].kind = "start" => ui.screen = "tunnelform"
        BY DEF ModelFits, DialogFits
      <3>6. Len(s) = 0 \/ (Len(s) = 1 /\ m.kind = "quit" /\ ui.operation.kind = "none")
        <4>1. CASE Len(ui.under) = 1
          BY <3>1, <4>1
        <4>2. CASE Len(ui.under) = 2
          BY <3>1, <3>5, <4>2
        <4>3. Len(ui.under) \in Nat /\ Len(ui.under) > 0 /\ Len(ui.under) <= 2
          BY <3>1, <3>5
        <4>4. \A n \in Nat : n > 0 /\ n <= 2 => n = 1 \/ n = 2
          OBVIOUS
        <4> QED
          BY <4>1, <4>2, <4>3, <4>4
      <3>7. Len(s) = 0 => s = <<>>
        BY <3>1
      <3>8. DialogFits(v)
        BY <3>1, <3>3, <3>5, <3>6, <3>7 DEF DialogFits, Keeps
      <3> QED
        BY <3>3, <3>4, <3>8 DEF ModelFits, Handles, Keeps, Kept, LeavesFits, v
    <2> QED
      BY <2>2, <2>3
  <1> QED
    BY <1>2, <1>3

---------------------------------------------------------------------------
(* The commands and the tunnel under what a key or a result leaves.         *)

LEMMA ModelIs ==
    ASSUME IInv
    PROVE  /\ ui \in Models /\ ModelFits(ui) /\ OperationFits(ui) /\ cmds \subseteq Commands
           /\ ui.operation \in Operations /\ ui.security \in Prompts /\ ui.startup \in Startups
           /\ ui.last \in Nat /\ ui.operation.id \in Nat
           /\ MaxOperations \in Nat /\ MaxResizes \in Nat
           /\ stops \in Nat /\ tunnel.attempt \in Nat
           /\ \A c \in cmds : c.id \in Nat
  <1>1. ui \in Models /\ ModelFits(ui) /\ OperationFits(ui) /\ cmds \subseteq Commands
    BY DEF IInv, TypeOK, ModelFits
  <1>2. ui.operation \in Operations /\ ui.security \in Prompts /\ ui.startup \in Startups
    BY <1>1 DEF Models
  <1>3. OperationIds \subseteq Nat /\ MaxOperations \in Nat /\ MaxResizes \in Nat
    BY UIAssumption DEF OperationIds
  <1>4. ui.last \in Nat /\ ui.operation.id \in Nat
    BY <1>1, <1>2, <1>3 DEF Models, Operations
  <1>5. stops \in Nat /\ tunnel.attempt \in Nat
    BY <1>3 DEF IInv, TypeOK
  <1>6. \A c \in cmds : c.id \in Nat
    BY <1>1, <1>3 DEF Commands
  <1> QED
    BY <1>1, <1>2, <1>3, <1>4, <1>5, <1>6

LEMMA LaunchedIs ==
    ASSUME IInv, NEW v, ModelFits(v)
    PROVE  /\ Kept(ui, v) \/ v.operation.kind = "none" => Launched(v) = {}
           /\ Begun(ui, v) =>
                 /\ Launched(v) = {[id |-> v.last, kind |-> v.operation.kind, stage |-> "running"]}
                 /\ [id |-> v.last, kind |-> v.operation.kind, stage |-> "running"] \in Commands
  <1>1. Kept(ui, v) \/ v.operation.kind = "none" => Launched(v) = {}
    BY DEF Launched, Kept
  <1>2. ASSUME Begun(ui, v)
        PROVE  /\ Launched(v) = {[id |-> v.last, kind |-> v.operation.kind, stage |-> "running"]}
               /\ [id |-> v.last, kind |-> v.operation.kind, stage |-> "running"] \in Commands
    <2>1. ui.operation.id <= ui.last
      BY ModelIs, NoOperation.id = 0 DEF OperationFits, NoOperation
    <2>2. v.operation.id # ui.operation.id
      BY <1>2, <2>1, ModelIs DEF Begun
    <2>3. v.last \in OperationIds /\ v.operation \in Operations
      BY DEF ModelFits, Models
    <2>4. v.operation.kind \in OperationKinds
      BY <1>2, <2>3 DEF Begun, Operations
    <2> QED
      BY <1>2, <2>2, <2>3, <2>4 DEF Launched, Begun, Commands
  <1> QED
    BY <1>1, <1>2

LEMMA TypeKept ==
    ASSUME IInv, ModelFits(ui'), cmds' \subseteq Commands,
           UNCHANGED <<exec, small, resizes, tunnel, stops>>
    PROVE  TypeOK' /\ ModelFits(ui)'
  <1>1. ui' \in Models /\ DialogFits(ui')
    BY DEF ModelFits
  <1>2. Len(ui'.under) \in Nat
    BY <1>1 DEF Models
  <1>3. Len(ui'.under) <= 2
    BY <1>1, <1>2 DEF DialogFits
  <1> QED
    BY <1>1, <1>3 DEF IInv, TypeOK, Live

\* The operation goes on.
LEMMA KeptKeeps ==
    ASSUME IInv, ModelFits(ui'), Kept(ui, ui'), LeavesFits(ui, ui'),
           ui'.security.kind \in {ui.security.kind, "none"},
           cmds' \subseteq cmds, exec # "shell", ui.leaving # "left",
           UNCHANGED <<exec, small, resizes, tunnel, stops>>
    PROVE  IInv'
  <1>1. TypeOK' /\ ModelFits(ui)'
    BY TypeKept, ModelIs
  <1>2. \A c \in cmds' : c \in cmds /\ (Accepts(c)' <=> Accepts(c))
    BY DEF Kept, Accepts
  <1>3. CommandsFit'
    BY <1>2 DEF IInv, CommandsFit, Kept
  <1>4. TunnelFits'
    BY <1>2 DEF IInv, TunnelFits, Kept, LeavesFits
  <1>5. WaitersFit'
    BY <1>2 DEF IInv, WaitersFit, Kept
  <1>6. ShellFits'
    BY <1>2 DEF IInv, ShellFits, Kept, Live
  <1>7. StopsFit'
    BY DEF IInv, StopsFit, Kept
  <1> QED
    BY <1>1, <1>3, <1>4, <1>5, <1>6, <1>7 DEF IInv

\* The operation is over.
LEMMA OverKeeps ==
    ASSUME IInv, ModelFits(ui'), ui'.last = ui.last, ui'.operation.kind = "none",
           \A c \in cmds' : c.kind # "tunnel", LeavesFits(ui, ui'), ui'.security.kind = "none",
           cmds' \subseteq cmds, exec # "shell", ui.leaving # "left",
           UNCHANGED <<exec, small, resizes, tunnel, stops>>
    PROVE  IInv'
  <1>1. TypeOK' /\ ModelFits(ui)'
    BY TypeKept, ModelIs
  <1>2. ~ui'.startup.present
    BY DEF ModelFits, StartupFits
  <1>3. \A c \in cmds' : c \in cmds /\ c.kind # "tunnel" /\ c.stage # "shell" /\ ~Accepts(c)'
    BY ModelIs DEF IInv, ShellFits, Accepts, Commands, OperationKinds
  <1>4. CommandsFit'
    BY <1>3 DEF IInv, CommandsFit
  <1>5. TunnelFits'
    BY <1>3 DEF IInv, TunnelFits
  <1>6. WaitersFit'
    BY <1>3 DEF WaitersFit
  <1>7. ShellFits'
    BY <1>3 DEF IInv, ShellFits
  <1>8. StopsFit'
    BY <1>2, ModelIs DEF IInv, StopsFit
  <1> QED
    BY <1>1, <1>4, <1>5, <1>6, <1>7, <1>8 DEF IInv

\* The next operation is begun, with its command.
LEMMA BegunKeeps ==
    ASSUME IInv, ModelFits(ui'), Begun(ui, ui'), ui.operation.kind # "tunnel",
           LeavesFits(ui, ui'), NEW D, cmds' = (cmds \ D) \cup Launched(ui'),
           exec # "shell", ui.leaving # "left",
           UNCHANGED <<exec, small, resizes, tunnel, stops>>
    PROVE  IInv'
  <1>1. PICK n \in Commands : /\ cmds' = (cmds \ D) \cup {n}
                             /\ n.id = ui'.last /\ n.kind = ui'.operation.kind /\ n.stage = "running"
    BY LaunchedIs
  <1>2. n.id = ui.last + 1 /\ Accepts(n)'
    BY <1>1 DEF Begun, Accepts
  <1>3. TypeOK' /\ ModelFits(ui)'
    BY <1>1, TypeKept, ModelIs
  <1>4. \A c \in cmds' :
           \/ c = n
           \/ /\ c \in cmds /\ c.kind # "tunnel" /\ c.stage # "shell" /\ ~Accepts(c)'
              /\ c.id <= ui.last /\ c.id # n.id
    <2> SUFFICES ASSUME NEW c \in cmds
                 PROVE  /\ c.kind # "tunnel" /\ c.stage # "shell" /\ ~Accepts(c)'
                        /\ c.id <= ui.last /\ c.id # n.id
      BY <1>1
    <2>1. c.kind # "tunnel" /\ c.stage # "shell" /\ c.id <= ui.last
      BY DEF IInv, TunnelFits, ShellFits, CommandsFit, Accepts
    <2>2. c.id # ui.last + 1
      BY <2>1, ModelIs
    <2> QED
      BY <1>2, <2>1, <2>2 DEF Accepts, Begun
  <1>5. CommandsFit'
    BY <1>2, <1>4, ModelIs DEF IInv, CommandsFit, Begun
  <1>6. TunnelFits'
    <2>1. tunnel.attempt + 2 <= n.id /\ tunnel.attempt < ui'.last
      BY <1>2, ModelIs DEF IInv, TunnelFits, Begun
    <2>2. \A c \in cmds' : c.kind = "tunnel" => c = n
      BY <1>4
    <2> QED
      BY <1>2, <2>1, <2>2 DEF TunnelFits, Begun
  <1>7. WaitersFit'
    BY <1>4 DEF WaitersFit, Begun
  <1>8. ShellFits'
    BY <1>1, <1>2, <1>4 DEF IInv, ShellFits, Begun
  <1>9. StopsFit'
    BY ModelIs DEF IInv, StopsFit, Begun
  <1> QED
    BY <1>3, <1>5, <1>6, <1>7, <1>8, <1>9 DEF IInv

LEMMA HandlesKeeps ==
    ASSUME IInv, Handles(ui'), NEW D, cmds' = (cmds \ D) \cup Launched(ui'),
           exec # "shell", ui.leaving # "left",
           UNCHANGED <<exec, small, resizes, tunnel, stops>>
    PROVE  IInv'
  <1>1. Kept(ui, ui') \/ ui'.operation.kind = "none" => cmds' \subseteq cmds
    BY LaunchedIs DEF Handles
  <1>2. ui.operation.kind # "tunnel" => \A c \in cmds : c.kind # "tunnel"
    BY DEF IInv, TunnelFits, Accepts
  <1> QED
    BY <1>1, <1>2, KeptKeeps, OverKeeps, BegunKeeps DEF Handles

---------------------------------------------------------------------------
(* Keys and results, as actions.                                            *)

\* The loop reads, and goes on with the Model that a handler leaves.
LEMMA PressedKeeps ==
    ASSUME IInv, NEW v, Pressed(v), Handles(v)
    PROVE  Handles(ui') /\ IInv'
  <1>1. ui' = v /\ cmds' = (cmds \ {}) \cup Launched(v) /\ exec # "shell" /\ ui.leaving # "left"
    BY DEF Pressed, Step, Ready
  <1> QED
    BY <1>1, HandlesKeeps DEF Pressed

\* The keys that only change the Model, and may start a command.
LoopKey ==
    \/ Quit \/ CancelOperation \/ QuitAnswered \/ ModalKey \/ FormKey \/ FormConflictKey
    \/ TunnelFormKey \/ BrowserKey \/ TunnelsKey

LEMMA LoopKeys ==
    ASSUME IInv, LoopKey
    PROVE  Handles(ui') /\ IInv'
  <1>1. ModelFits(ui)
    BY DEF IInv
  <1>2. ASSUME Idle(ui), NEW v, Pressed(v), After(ui, v) PROVE Handles(ui') /\ IInv'
    BY <1>2, PressedKeeps, AfterHandles DEF Idle
  <1>3. CASE Quit
    <2>1. Handles(QuitPressed(Repaired))
      BY <1>1, RepairedIs, QuitPressedIs, RepairedHandles
    <2> QED
      BY <1>3, <2>1, PressedKeeps DEF Quit
  <1>4. CASE CancelOperation
    <2>1. Passes(Repaired, RequestCancellation(Repaired, FALSE))
      BY <1>1, RepairedIs, RequestCancellationIs DEF Passes, Kept, LeavesFits
    <2> QED
      BY <1>1, <1>4, <2>1, RepairedHandles, PressedKeeps DEF CancelOperation
  <1>5. CASE QuitAnswered
    <2>1. Pressed(CloseAndQuit(CloseModal(ui))) \/ Pressed(Uncovered(ui))
      BY <1>5 DEF QuitAnswered, Uncovered
    <2>2. Owner(ui) = "quit"
      BY <1>5 DEF QuitAnswered
    <2> QED
      BY <1>1, <2>1, <2>2, QuitAnsweredIs, PressedKeeps
  <1>6. CASE ModalKey
    <2>1. PICK v \in ModalEnds(Repaired) \cup (IF MayBegin(Repaired) THEN ModalBegins(Repaired) ELSE {}) :
             Pressed(v)
      BY <1>6 DEF ModalKey
    <2>2. Owner(Repaired) = "modal"
      BY <1>6 DEF ModalKey
    <2>3. Idle(Repaired) /\ After(Repaired, v)
      BY <1>1, <2>1, <2>2, RepairedIs, ModalKeyIs
    <2> QED
      BY <1>1, <2>1, <2>3, RepairedHandles, PressedKeeps
  <1>7. CASE FormKey
    <2>1. Owner(ui) = "form"
      BY <1>7 DEF FormKey
    <2>2. \/ Pressed([ui EXCEPT !.dirty = TRUE])
          \/ Pressed(IF ui.dirty THEN OpenUnsaved(ui, FALSE) ELSE CancelForm(ui))
          \/ MayBegin(ui) /\ \E u \in ReloadBegins(ui) \cup SaveForm(ui) : Pressed(u)
      BY <1>7 DEF FormKey
    <2> QED
      BY <1>1, <1>2, <2>1, <2>2, FormKeyIs
  <1>8. CASE FormConflictKey
    <2>1. Owner(ui) = "form"
      BY <1>8 DEF FormConflictKey
    <2>2. \/ Pressed(CloseForm(ui))
          \/ MayBegin(ui) /\ \E u \in ReloadBegins(ui) : Pressed(u)
      BY <1>8 DEF FormConflictKey
    <2> QED
      BY <1>1, <1>2, <2>1, <2>2, FormKeyIs
  <1>9. CASE TunnelFormKey
    <2>1. Owner(ui) = "tunnelform"
      BY <1>9 DEF TunnelFormKey
    <2>2. \/ Pressed([ui EXCEPT !.dirty = TRUE])
          \/ Pressed(IF ui.dirty THEN OpenModal(ui, Modal("discard", FALSE)) ELSE CloseForm(ui))
          \/ Pressed(OpenModal(ui, Modal("start", FALSE)))
      BY <1>9 DEF TunnelFormKey
    <2> QED
      BY <1>1, <1>2, <2>1, <2>2, TunnelFormKeyIs
  <1>10. CASE BrowserKey
    <2>1. Owner(ui) = "browser"
      BY <1>10 DEF BrowserKey
    <2>2. \/ Pressed([ui EXCEPT !.screen = "form"])
          \/ \E kind \in {"confirm", "connect"} : Pressed(OpenModal(ui, Modal(kind, FALSE)))
          \/ MayBegin(ui) /\ \E u \in ReloadBegins(ui) \cup ChangeBegins(ui) : Pressed(u)
      BY <1>10 DEF BrowserKey
    <2> QED
      BY <1>1, <1>2, <2>1, <2>2, BrowserKeyIs
  <1>11. CASE TunnelsKey
    <2>1. Owner(ui) = "browser"
      BY <1>11 DEF TunnelsKey
    <2>2. \/ Pressed([ui EXCEPT !.screen = "tunnelform"])
          \/ Pressed(OpenModal(ui, Modal("stop", FALSE)))
          \/ MayBegin(ui) /\ \E u \in RetryBegins(ui) : Pressed(u)
      BY <1>11 DEF TunnelsKey
    <2> QED
      BY <1>1, <1>2, <2>1, <2>2, BrowserKeyIs
  <1> QED
    BY <1>3, <1>4, <1>5, <1>6, <1>7, <1>8, <1>9, <1>10, <1>11 DEF LoopKey

LEMMA DeliverKeeps ==
    ASSUME IInv, NEW c, NEW result, Deliver(c, result)
    PROVE  Handles(ui') /\ IInv'
  <1>1. /\ c \in cmds /\ c.kind # "tunnel"
        /\ c.kind = "remember" => c.stage # "waiting"
        /\ result \in Outcomes(c) /\ exec # "shell" /\ ui.leaving # "left"
        /\ UNCHANGED <<exec, small, resizes, tunnel, stops>>
    BY DEF Deliver, Ready
  <1>2. PICK u \in IF Applies(c) THEN Results(c, result) ELSE {ui} :
           ui' = u /\ cmds' = (cmds \ {c}) \cup Launched(u)
    BY DEF Deliver
  <1>3. Handles(u)
    <2>1. CASE Applies(c)
      <3>1. u \in Results(c, result)
        BY <1>2, <2>1
      <3> QED
        BY <1>1, <2>1, <3>1, ResultsAre
    <2>2. CASE ~Applies(c)
      BY <1>2, <2>2 DEF IInv, Handles, Kept, LeavesFits
    <2> QED
      BY <2>1, <2>2
  <1> QED
    BY <1>1, <1>2, <1>3, HandlesKeeps

---------------------------------------------------------------------------
(* Prompts, the foreground and the window.                                  *)

Tunnels ==
    [state: {"none", "starting", "active", "stopped", "failed"}, attempt: 0..MaxOperations,
     ask: {"no", "sent", "shown", "done"}, closed: BOOLEAN]

LEMMA TypeIs ==
    ASSUME ModelFits(ui'), cmds' \subseteq Commands,
           exec' \in {"none", "reading", "answered", "shell"}, small' \in BOOLEAN,
           resizes' \in 0..MaxResizes, tunnel' \in Tunnels, stops' \in 0..MaxOperations
    PROVE  TypeOK' /\ ModelFits(ui)'
  <1>1. ui' \in Models /\ DialogFits(ui')
    BY DEF ModelFits
  <1>2. Len(ui'.under) \in Nat
    BY <1>1 DEF Models
  <1>3. Len(ui'.under) <= 2
    BY <1>1, <1>2 DEF DialogFits
  <1> QED
    BY <1>1, <1>3 DEF TypeOK, Tunnels

\* One command goes on to its next stage, under the same operation.
SameRun(u, v) ==
    /\ v.last = u.last /\ v.operation = u.operation /\ v.startup = u.startup
    /\ v.leaving = u.leaving

LEMMA StageKeeps ==
    ASSUME IInv, NEW c \in cmds, NEW stage, Stage(c, stage), [c EXCEPT !.stage = stage] \in Commands,
           stage # "running", SameRun(ui, ui'), stops' = stops,
           \/ tunnel'.attempt = tunnel.attempt
           \/ tunnel'.attempt = tunnel.attempt + 1 /\ c.kind = "tunnel" /\ c.stage = "running"
    PROVE  /\ cmds' \subseteq Commands /\ CommandsFit' /\ TunnelFits' /\ StopsFit'
           /\ \A d \in cmds' : Accepts(d)' <=> Accepts(d)
           /\ \E n \in Commands :
                 /\ n.id = c.id /\ n.kind = c.kind /\ n.stage = stage
                 /\ (Accepts(n) <=> Accepts(c))
                 /\ \A d \in cmds' : d = n \/ (d \in cmds /\ d # c /\ d.id # c.id)
  <1>1. cmds \subseteq Commands
    BY ModelIs
  <1>2. PICK n \in Commands : /\ n.id = c.id /\ n.kind = c.kind /\ n.stage = stage
                             /\ cmds' = (cmds \ {c}) \cup {n}
    BY <1>1 DEF Stage, Commands
  <1>3. \A d \in cmds' : d = n \/ (d \in cmds /\ d # c /\ d.id # c.id)
    BY <1>2 DEF IInv, CommandsFit
  <1>4. \A d \in cmds' : Accepts(d)' <=> Accepts(d)
    BY DEF Accepts, SameRun
  <1>5. Accepts(n) <=> Accepts(c)
    BY <1>2 DEF Accepts
  <1>6. CommandsFit'
    BY <1>2, <1>3 DEF IInv, CommandsFit, SameRun
  <1>7. TunnelFits'
    <2>1. \A d \in cmds' : d.kind = "tunnel" => Accepts(d)' \/ ui'.leaving = "left"
      BY <1>2, <1>3, <1>4, <1>5 DEF IInv, TunnelFits, SameRun
    <2>2. \A d, e \in cmds' : d.kind = "tunnel" /\ e.kind = "tunnel" => e = d
      BY <1>2, <1>3 DEF IInv, TunnelFits
    <2>3. \A d \in cmds' : d.kind = "tunnel" /\ d.stage = "running" => tunnel'.attempt + 2 <= d.id
      BY <1>2, <1>3 DEF IInv, TunnelFits
    <2>4. \A d \in cmds' : d.kind = "tunnel" /\ ui'.startup.present => ui'.startup.attempt = 0
      BY <1>2, <1>3 DEF IInv, TunnelFits, SameRun
    <2>5. tunnel'.attempt < ui'.last
      BY ModelIs DEF IInv, TunnelFits, CommandsFit, SameRun
    <2> QED
      BY <2>1, <2>2, <2>3, <2>4, <2>5 DEF TunnelFits
  <1>8. StopsFit'
    BY DEF IInv, StopsFit, SameRun
  <1> QED
    BY <1>1, <1>2, <1>3, <1>4, <1>5, <1>6, <1>7, <1>8

\* A session goes on, without a word to the loop.
LEMMA SessionKeeps ==
    ASSUME IInv, NEW c, SessionAsks(c) \/ SessionActivates(c)
    PROVE  IInv'
  <1>1. PICK stage \in {"asking", "activating"} :
           /\ c \in cmds /\ c.kind = "ssh" /\ Stage(c, stage)
           /\ UNCHANGED <<ui, exec, small, resizes, tunnel, stops>>
    BY DEF SessionAsks, SessionActivates
  <1>2. [c EXCEPT !.stage = stage] \in Commands
    BY <1>1, ModelIs DEF Commands
  <1>3. /\ cmds' \subseteq Commands /\ CommandsFit' /\ TunnelFits' /\ StopsFit'
        /\ \A d \in cmds' : Accepts(d)' <=> Accepts(d)
        /\ \E n \in Commands :
              /\ n.id = c.id /\ n.kind = c.kind /\ n.stage = stage
              /\ \A d \in cmds' : d = n \/ (d \in cmds /\ d # c /\ d.id # c.id)
    BY <1>1, <1>2, StageKeeps DEF SameRun
  <1>4. TypeOK' /\ ModelFits(ui)'
    BY <1>1, <1>3, TypeKept DEF IInv
  <1>5. WaitersFit'
    BY <1>1, <1>3 DEF IInv, WaitersFit, ModelFits, PromptFits, Accepts
  <1>6. ShellFits'
    BY <1>1, <1>3 DEF IInv, ShellFits, Live
  <1> QED
    BY <1>3, <1>4, <1>5, <1>6 DEF IInv

LEMMA TunnelIs == ASSUME IInv PROVE tunnel \in Tunnels /\ exec \in {"none", "reading", "answered", "shell"}
                                    /\ small \in BOOLEAN /\ resizes \in 0..MaxResizes
                                    /\ stops \in 0..MaxOperations
  BY DEF IInv, TypeOK, Tunnels

\* The marks of a prompt, changed by the window.
LEMMA MarkedIs ==
    ASSUME NEW u, ModelFits(u), NEW p \in Prompts,
           \/ p.kind = u.security.kind
           \/ p.kind = "password" /\ u.operation.kind = "remember"
           \/ p.kind \in {"trust", "secret"} /\ u.operation.kind \in {"ssh", "tunnel"}
    PROVE  LET v == [u EXCEPT !.security = p] IN
           ModelFits(v) /\ SameRun(u, v) /\ v.security = p
  <1> DEFINE v == [u EXCEPT !.security = p]
  <1>1. /\ v \in Models /\ SameRun(u, v) /\ v.security = p
        /\ v.modal = u.modal /\ v.under = u.under /\ v.screen = u.screen
    BY DEF ModelFits, Models, SameRun
  <1> HIDE DEF v
  <1>2. OperationFits(v) /\ StartupFits(v) /\ PromptFits(v) /\ DialogFits(v)
    BY <1>1 DEF ModelFits, SameRun, OperationFits, StartupFits, PromptFits, DialogFits
  <1> QED
    BY <1>1, <1>2 DEF ModelFits, v

LEMMA ShowsIs ==
    ASSUME IInv, NEW kind \in {"trust", "secret", "password"}, Shows(kind), exec = "none",
           IF kind = "password" THEN ui.operation.kind = "remember"
           ELSE ui.operation.kind \in {"ssh", "tunnel"}
    PROVE  /\ ModelFits(ui') /\ SameRun(ui, ui') /\ ui'.security.kind = kind
           /\ exec' \in {"none", "reading"}
  <1> DEFINE p == [kind |-> kind, suspended |-> small, discard |-> FALSE]
  <1>1. p \in Prompts /\ p.kind = kind
    BY TunnelIs DEF Prompts
  <1>2. ui' = [ui EXCEPT !.security = p]
    BY DEF Shows, Prompt
  <1> HIDE DEF p
  <1> QED
    BY <1>1, <1>2, MarkedIs, ModelIs DEF Shows

LEMMA AsksKeeps ==
    ASSUME IInv, NEW c, SessionPrompts(c) \/ PasswordPrompts(c)
    PROVE  IInv' /\ ui'.leaving = ui.leaving
  <1>1. /\ c \in cmds /\ Accepts(c) /\ Stage(c, "waiting") /\ c.kind \in {"ssh", "remember"}
        /\ UNCHANGED <<small, resizes, tunnel, stops>> /\ exec = "none"
    BY DEF SessionPrompts, PasswordPrompts
  <1>2. PICK kind \in {"trust", "secret", "password"} :
           Shows(kind) /\ (kind = "password" <=> c.kind = "remember")
    <2>1. CASE SessionPrompts(c)
      BY <2>1 DEF SessionPrompts
    <2>2. CASE PasswordPrompts(c)
      BY <2>2 DEF PasswordPrompts
    <2> QED
      BY <2>1, <2>2
  <1>3. /\ ModelFits(ui') /\ SameRun(ui, ui') /\ ui'.security.kind = kind
        /\ exec' \in {"none", "reading"} /\ ui.operation.kind = c.kind
    BY <1>1, <1>2, ShowsIs DEF Accepts
  <1>4. [c EXCEPT !.stage = "waiting"] \in Commands
    BY <1>1, ModelIs DEF Commands
  <1>5. /\ cmds' \subseteq Commands /\ CommandsFit' /\ TunnelFits' /\ StopsFit'
        /\ \A d \in cmds' : Accepts(d)' <=> Accepts(d)
        /\ \E n \in Commands :
              /\ n.id = c.id /\ n.kind = c.kind /\ n.stage = "waiting"
              /\ \A d \in cmds' : d = n \/ (d \in cmds /\ d # c /\ d.id # c.id)
    BY <1>1, <1>3, <1>4, StageKeeps
  <1>6. TypeOK' /\ ModelFits(ui)'
    BY <1>1, <1>3, <1>5, TypeIs, TunnelIs
  <1>7. WaitersFit'
    BY <1>1, <1>3, <1>5 DEF WaitersFit, Accepts, SameRun
  <1>8. ShellFits'
    BY <1>1, <1>3, <1>5 DEF IInv, ShellFits, Accepts, SameRun
  <1> QED
    BY <1>3, <1>5, <1>6, <1>7, <1>8 DEF IInv, SameRun

\* The commands stay as they are: it is enough that the prompt and the
\* foreground agree with them.
LEMMA QuietKeeps ==
    ASSUME IInv, ModelFits(ui'), SameRun(ui, ui'), UNCHANGED <<cmds, stops>>,
           exec' = exec \/ (exec # "shell" /\ exec' \in {"none", "reading", "answered"}),
           small' \in BOOLEAN, resizes' \in 0..MaxResizes,
           tunnel' \in Tunnels, tunnel'.attempt = tunnel.attempt, Live' => Live,
           ui'.security.kind = ui.security.kind
    PROVE  IInv'
  <1>1. TypeOK' /\ ModelFits(ui)'
    BY TypeIs, TunnelIs, ModelIs
  <1>2. \A c \in cmds : Accepts(c)' <=> Accepts(c)
    BY DEF Accepts, SameRun
  <1>3. CommandsFit' /\ TunnelFits' /\ StopsFit'
    BY <1>2 DEF IInv, CommandsFit, TunnelFits, StopsFit, SameRun
  <1>4. WaitersFit'
    BY <1>2 DEF IInv, WaitersFit, SameRun
  <1>5. ShellFits'
    BY <1>2 DEF IInv, ShellFits, SameRun
  <1> QED
    BY <1>1, <1>3, <1>4, <1>5 DEF IInv

LEMMA TunnelPromptsKeeps ==
    ASSUME IInv, TunnelPrompts
    PROVE  IInv' /\ ui'.leaving = ui.leaving
  <1>1. /\ exec = "none" /\ UNCHANGED <<cmds, small, resizes, stops>>
        /\ \E a \in {"shown", "done"} : tunnel' = [tunnel EXCEPT !.ask = a]
    BY DEF TunnelPrompts
  <1>2. /\ tunnel' \in Tunnels /\ tunnel'.attempt = tunnel.attempt /\ (Live' <=> Live)
    BY <1>1, TunnelIs DEF Tunnels, Live
  <1>3. CASE ~AcceptsTunnel
    BY <1>1, <1>2, <1>3, QuietKeeps, TunnelIs DEF TunnelPrompts, SameRun, IInv
  <1>4. CASE AcceptsTunnel
    <2>1. PICK kind \in {"trust", "secret"} : Shows(kind)
      BY <1>4 DEF TunnelPrompts
    <2>2. ui.operation.kind = "tunnel" /\ \A c \in cmds : c.kind = "tunnel" => c.stage = "registered"
      BY <1>4 DEF AcceptsTunnel
    <2>3. /\ ModelFits(ui') /\ SameRun(ui, ui') /\ ui'.security.kind = kind
          /\ exec' \in {"none", "reading"}
      BY <1>1, <2>1, <2>2, ShowsIs
    <2>4. TypeOK' /\ ModelFits(ui)'
      BY <1>1, <1>2, <2>3, TypeIs, TunnelIs, ModelIs
    <2>5. \A c \in cmds : Accepts(c)' <=> Accepts(c)
      BY <2>3 DEF Accepts, SameRun
    <2>6. CommandsFit' /\ TunnelFits' /\ StopsFit'
      BY <1>1, <1>2, <2>3, <2>5 DEF IInv, CommandsFit, TunnelFits, StopsFit, SameRun
    <2>7. WaitersFit'
      BY <1>1, <2>2, <2>3 DEF WaitersFit, SameRun
    <2>8. ShellFits'
      <3>1. \A c \in cmds : c.stage \in {"shell", "ended"} => ~Accepts(c)
        BY <2>2 DEF Accepts
      <3> QED
        BY <1>1, <2>3, <2>5, <3>1 DEF IInv, ShellFits
    <2> QED
      BY <2>3, <2>4, <2>6, <2>7, <2>8 DEF IInv, SameRun
  <1> QED
    BY <1>3, <1>4 DEF TunnelPrompts

LEMMA WindowKeeps ==
    ASSUME IInv, ReadingSuspended \/ ReadingEnds \/ Shrink \/ Grow
    PROVE  IInv' /\ ui'.leaving = ui.leaving
  <1>1. /\ UNCHANGED <<cmds, tunnel, stops>>
        /\ exec' = exec \/ (exec # "shell" /\ exec' \in {"none", "reading", "answered"})
    BY DEF ReadingSuspended, ReadingEnds, Shrink, Grow
  <1>2. small' \in BOOLEAN /\ resizes' \in 0..MaxResizes
    <2>1. small' \in {small, TRUE, FALSE}
      BY DEF ReadingSuspended, ReadingEnds, Shrink, Grow
    <2>2. resizes' = resizes \/ (resizes < MaxResizes /\ resizes' = resizes + 1)
      BY DEF ReadingSuspended, ReadingEnds, Shrink, Grow
    <2>3. resizes' \in 0..MaxResizes
      BY <2>2, TunnelIs, ModelIs
    <2> QED
      BY <2>1, <2>3, TunnelIs
  <1>3. PICK q \in Prompts : ui' = [ui EXCEPT !.security = q] /\ q.kind = ui.security.kind
    <2> DEFINE s(b) == [ui.security EXCEPT !.suspended = b]
               d(b) == [ui.security EXCEPT !.discard = b]
               sd == [[ui.security EXCEPT !.suspended = TRUE] EXCEPT !.discard = TRUE]
    <2>1. /\ \A b \in BOOLEAN : s(b) \in Prompts /\ s(b).kind = ui.security.kind
          /\ \A b \in BOOLEAN : d(b) \in Prompts /\ d(b).kind = ui.security.kind
          /\ sd \in Prompts /\ sd.kind = ui.security.kind
      BY ModelIs DEF Prompts
    <2>2. ui.security \in Prompts /\ ui = [ui EXCEPT !.security = ui.security]
      BY ModelIs DEF Models
    <2>3. \/ ui' = ui
          \/ \E b \in BOOLEAN : ui' = [ui EXCEPT !.security = s(b)]
          \/ \E b \in BOOLEAN : ui' = [ui EXCEPT !.security = d(b)]
          \/ ui' = [ui EXCEPT !.security = sd]
      <3>1. CASE ReadingSuspended
        BY <3>1, ModelIs DEF ReadingSuspended, Models
      <3>2. CASE ReadingEnds
        BY <3>2, ModelIs DEF ReadingEnds, Models
      <3>3. CASE Shrink
        BY <3>3, ModelIs DEF Shrink, Models
      <3>4. CASE Grow
        BY <3>4, ModelIs DEF Grow, Models
      <3> QED
        BY <3>1, <3>2, <3>3, <3>4
    <2> HIDE DEF s, d, sd
    <2> QED
      BY <2>1, <2>2, <2>3
  <1>5. ModelFits(ui') /\ SameRun(ui, ui') /\ ui'.security.kind = ui.security.kind
    BY <1>3, MarkedIs, ModelIs
  <1>6. Live' <=> Live
    BY <1>1 DEF Live
  <1> QED
    BY <1>1, <1>2, <1>5, <1>6, QuietKeeps, TunnelIs DEF SameRun

LEMMA AttemptKeeps ==
    ASSUME IInv,
           TunnelAsks \/ (\E state \in {"active", "failed"} : TunnelEnds(state)) \/ DismissTunnel
    PROVE  IInv' /\ ui'.leaving = ui.leaving
  <1>1. UNCHANGED <<ui, cmds, exec, small, resizes, stops>>
    BY DEF TunnelAsks, TunnelEnds, DismissTunnel
  <1>2. tunnel' \in Tunnels /\ tunnel'.attempt = tunnel.attempt /\ (Live' => Live)
    BY TunnelIs DEF TunnelAsks, TunnelEnds, DismissTunnel, Tunnels, Live
  <1> QED
    BY <1>1, <1>2, QuietKeeps, TunnelIs, ModelIs DEF SameRun

LEMMA StopKeeps ==
    ASSUME IInv, StopRuns
    PROVE  IInv' /\ ui'.leaving = ui.leaving
  <1>1. UNCHANGED <<ui, cmds, exec, small, resizes>> /\ stops' = stops - 1 /\ stops > 0
    BY DEF StopRuns
  <1>2. stops' \in 0..MaxOperations
    BY <1>1, TunnelIs, ModelIs
  <1>3. tunnel' \in Tunnels /\ tunnel'.attempt = tunnel.attempt /\ (Live' => Live)
    BY TunnelIs DEF StopRuns, Tunnels, Live
  <1>4. TypeOK' /\ ModelFits(ui)'
    BY <1>1, <1>2, <1>3, TypeIs, TunnelIs, ModelIs
  <1>5. \A c \in cmds : Accepts(c)' <=> Accepts(c)
    BY <1>1 DEF Accepts
  <1>6. CommandsFit' /\ TunnelFits' /\ WaitersFit' /\ ShellFits'
    BY <1>1, <1>3, <1>5 DEF IInv, CommandsFit, TunnelFits, WaitersFit, ShellFits
  <1>7. StopsFit'
    BY <1>1, <1>2, ModelIs DEF IInv, StopsFit
  <1> QED
    BY <1>1, <1>4, <1>6, <1>7 DEF IInv

---------------------------------------------------------------------------
(* Answers, shells and stops.                                               *)

LEMMA RespondIs ==
    ASSUME IInv, exec # "shell", NoResponse \/ Respond("answered") \/ Respond("refused")
    PROVE  /\ cmds' \subseteq Commands
           /\ tunnel' \in Tunnels /\ tunnel'.attempt = tunnel.attempt /\ (Live' <=> Live)
           /\ \A d \in cmds' : \E c \in cmds :
                 /\ d.id = c.id /\ d.kind = c.kind /\ (Accepts(d) <=> Accepts(c))
                 /\ d = c \/ d.stage \in {"answered", "refused"}
           /\ \A d, e \in cmds' : d.id = e.id => d = e
  <1>1. CASE NoResponse
    BY <1>1, TunnelIs, ModelIs DEF NoResponse, Live, IInv, CommandsFit
  <1>2. ASSUME NEW stage \in {"answered", "refused"}, Respond(stage)
        PROVE  /\ cmds' \subseteq Commands
               /\ tunnel' \in Tunnels /\ tunnel'.attempt = tunnel.attempt /\ (Live' <=> Live)
               /\ \A d \in cmds' : \E c \in cmds :
                     /\ d.id = c.id /\ d.kind = c.kind /\ (Accepts(d) <=> Accepts(c))
                     /\ d = c \/ d.stage \in {"answered", "refused"}
               /\ \A d, e \in cmds' : d.id = e.id => d = e
    <2> DEFINE f(c) == IF c.stage = "waiting" THEN [c EXCEPT !.stage = stage] ELSE c
    <2>1. cmds' = {f(c) : c \in cmds}
      BY <1>2 DEF Respond
    <2>2. \A c \in cmds : /\ f(c) \in Commands /\ f(c).id = c.id /\ f(c).kind = c.kind
                          /\ (Accepts(f(c)) <=> Accepts(c))
                          /\ f(c) = c \/ f(c).stage = stage
      BY ModelIs DEF Commands, Accepts
    <2>3. tunnel' \in Tunnels /\ tunnel'.attempt = tunnel.attempt /\ (Live' <=> Live)
      BY <1>2, TunnelIs DEF Respond, Tunnels, Live
    <2> HIDE DEF f
    <2>4. \A d, e \in cmds' : d.id = e.id => d = e
      BY <2>1, <2>2 DEF IInv, CommandsFit
    <2> QED
      BY <2>1, <2>2, <2>3, <2>4
  <1> QED
    BY <1>1, <1>2

\* A prompt is answered: it is gone, and the operation may be canceled.
LEMMA AnsweredKeeps ==
    ASSUME IInv, ui.security.kind # "none", exec # "shell",
           NoResponse \/ Respond("answered") \/ Respond("refused"),
           ModelFits(ui'), ui'.security.kind = "none",
           ui'.last = ui.last, ui'.startup = ui.startup, ui'.leaving = ui.leaving,
           ui'.operation.id = ui.operation.id, ui'.operation.kind = ui.operation.kind,
           exec' \in {"none", "answered", "reading"}, UNCHANGED <<small, resizes, stops>>
    PROVE  IInv'
  <1>1. /\ cmds' \subseteq Commands
        /\ tunnel' \in Tunnels /\ tunnel'.attempt = tunnel.attempt /\ (Live' <=> Live)
        /\ \A d \in cmds' : \E c \in cmds :
              /\ d.id = c.id /\ d.kind = c.kind /\ (Accepts(d) <=> Accepts(c))
              /\ d = c \/ d.stage \in {"answered", "refused"}
        /\ \A d, e \in cmds' : d.id = e.id => d = e
    BY RespondIs
  <1>2. \A d : Accepts(d)' <=> Accepts(d)
    BY DEF Accepts
  <1>3. TypeOK' /\ ModelFits(ui)'
    BY <1>1, TypeIs, TunnelIs
  <1>4. CommandsFit'
    BY <1>1 DEF IInv, CommandsFit
  <1>5. TunnelFits'
    <2>1. \A d, e \in cmds' : d.kind = "tunnel" /\ e.kind = "tunnel" => e = d
      BY <1>1 DEF IInv, TunnelFits
    <2>2. \A d \in cmds' : d.kind = "tunnel" =>
             /\ Accepts(d)' \/ ui'.leaving = "left"
             /\ d.stage = "running" => tunnel'.attempt + 2 <= d.id
             /\ ui'.startup.present => ui'.startup.attempt = 0
      BY <1>1, <1>2 DEF IInv, TunnelFits
    <2> QED
      BY <1>1, <2>1, <2>2 DEF IInv, TunnelFits
  <1>6. WaitersFit'
    BY DEF WaitersFit
  <1>7. ShellFits'
    BY <1>1, <1>2 DEF IInv, ShellFits
  <1>8. StopsFit'
    BY DEF IInv, StopsFit
  <1> QED
    BY <1>3, <1>4, <1>5, <1>6, <1>7, <1>8 DEF IInv

LEMMA ClearedIs ==
    ASSUME ModelFits(ui), NEW quit \in BOOLEAN,
           ui' = ClearSecurity(ui) \/ ui' = RequestCancellation(ClearSecurity(ui), quit)
    PROVE  /\ ModelFits(ui') /\ ui'.security.kind = "none"
           /\ ui'.last = ui.last /\ ui'.startup = ui.startup /\ ui'.leaving = ui.leaving
           /\ ui'.operation.id = ui.operation.id /\ ui'.operation.kind = ui.operation.kind
  <1> DEFINE w == ClearSecurity(ui)
  <1>1. /\ ModelFits(w) /\ w.security.kind = "none" /\ w.last = ui.last
        /\ w.operation = ui.operation /\ w.startup = ui.startup /\ w.leaving = ui.leaving
    BY ClearSecurityIs
  <1> HIDE DEF w
  <1>2. LET v == RequestCancellation(w, quit) IN
        /\ ModelFits(v) /\ v.last = w.last /\ v.security = w.security /\ v.startup = w.startup
        /\ v.leaving = w.leaving
        /\ v.operation.id = w.operation.id /\ v.operation.kind = w.operation.kind
    BY <1>1, RequestCancellationIs
  <1> QED
    BY <1>1, <1>2 DEF w

LEMMA AnswersKeep ==
    ASSUME IInv, ReadingHandled \/ AnswerTrust
    PROVE  IInv' /\ ui'.leaving = ui.leaving
  <1>1. CASE ReadingHandled
    <2>1. exec = "answered" /\ exec' = "none" /\ UNCHANGED <<small, resizes, stops>>
      BY <1>1 DEF ReadingHandled
    <2>2. CASE ui.security.kind \notin {"secret", "password"}
      <3>1. UNCHANGED <<ui, cmds, tunnel>>
        BY <1>1, <2>2 DEF ReadingHandled, NoResponse
      <3>2. Live' <=> Live
        BY <3>1 DEF Live
      <3> QED
        BY <2>1, <3>1, <3>2, QuietKeeps, TunnelIs, ModelIs DEF SameRun
    <2>3. CASE ui.security.kind \in {"secret", "password"}
      <3>1. /\ NoResponse \/ Respond("answered") \/ Respond("refused")
            /\ \E quit \in BOOLEAN :
                  ui' = ClearSecurity(ui) \/ ui' = RequestCancellation(ClearSecurity(ui), quit)
        BY <1>1, <2>3 DEF ReadingHandled
      <3>2. /\ ModelFits(ui') /\ ui'.security.kind = "none"
            /\ ui'.last = ui.last /\ ui'.startup = ui.startup /\ ui'.leaving = ui.leaving
            /\ ui'.operation.id = ui.operation.id /\ ui'.operation.kind = ui.operation.kind
        BY <3>1, ClearedIs DEF IInv
      <3> QED
        BY <2>1, <2>3, <3>1, <3>2, AnsweredKeeps
    <2> QED
      BY <2>2, <2>3
  <1>2. CASE AnswerTrust
    <2>1. /\ exec' = exec /\ exec \in {"none", "answered"} /\ UNCHANGED <<small, resizes, stops>>
          /\ ui.security.kind = "trust"
          /\ NoResponse \/ Respond("answered")
          /\ ui' = ClearSecurity(ui) \/ ui' = RequestCancellation(ClearSecurity(ui), FALSE)
      BY <1>2 DEF AnswerTrust, Ready
    <2>2. /\ ModelFits(ui') /\ ui'.security.kind = "none"
          /\ ui'.last = ui.last /\ ui'.startup = ui.startup /\ ui'.leaving = ui.leaving
          /\ ui'.operation.id = ui.operation.id /\ ui'.operation.kind = ui.operation.kind
      BY <2>1, ClearedIs DEF IInv
    <2> QED
      BY <2>1, <2>2, AnsweredKeeps
  <1> QED
    BY <1>1, <1>2

LEMMA ShellKeeps ==
    ASSUME IInv, NEW c, ShellBegins(c) \/ ShellEnds(c)
    PROVE  IInv' /\ ui'.leaving = ui.leaving
  <1>1. CASE ShellBegins(c)
    <2>1. /\ c \in cmds /\ c.stage = "activating" /\ Accepts(c) /\ Stage(c, "shell")
          /\ ~ui.operation.canceled /\ ui' = ClearSecurity(ui) /\ exec = "none" /\ exec' = "shell"
          /\ UNCHANGED <<small, resizes, tunnel, stops>>
      BY <1>1 DEF ShellBegins
    <2>2. /\ ModelFits(ui') /\ SameRun(ui, ui') /\ ui'.security.kind = "none"
      BY <2>1, ClearSecurityIs DEF IInv, SameRun
    <2>3. [c EXCEPT !.stage = "shell"] \in Commands
      BY <2>1, ModelIs DEF Commands
    <2>4. /\ cmds' \subseteq Commands /\ CommandsFit' /\ TunnelFits' /\ StopsFit'
          /\ \A d \in cmds' : Accepts(d)' <=> Accepts(d)
          /\ \E n \in Commands :
                /\ n.id = c.id /\ n.kind = c.kind /\ n.stage = "shell" /\ (Accepts(n) <=> Accepts(c))
                /\ \A d \in cmds' : d = n \/ (d \in cmds /\ d # c /\ d.id # c.id)
      BY <2>1, <2>2, <2>3, StageKeeps
    <2>5. TypeOK' /\ ModelFits(ui)'
      BY <2>1, <2>2, <2>4, TypeIs, TunnelIs
    <2>6. WaitersFit'
      BY <2>2 DEF WaitersFit
    <2>7. ui.operation.kind = "ssh" /\ ~ui'.operation.quit
      <3>1. ui.operation.kind = "ssh"
        BY <2>1 DEF IInv, ShellFits, Accepts
      <3> QED
        BY <2>1, <2>2, <3>1, ModelIs DEF OperationFits, SameRun
    <2>8. ShellFits'
      <3>1. \A d \in cmds : d.stage # "shell"
        BY <2>1 DEF IInv, ShellFits
      <3> QED
        BY <2>1, <2>2, <2>4, <2>7, <3>1 DEF IInv, ShellFits
    <2> QED
      BY <2>2, <2>4, <2>5, <2>6, <2>8 DEF IInv, SameRun
  <1>2. CASE ShellEnds(c)
    <2>1. /\ c \in cmds /\ c.stage = "shell" /\ Stage(c, "ended") /\ exec = "shell" /\ exec' = "none"
          /\ UNCHANGED <<ui, small, resizes, tunnel, stops>>
      BY <1>2 DEF ShellEnds
    <2>2. [c EXCEPT !.stage = "ended"] \in Commands
      BY <2>1, ModelIs DEF Commands
    <2>3. Accepts(c) /\ ui.security.kind = "none" /\ ~ui.operation.quit
      BY <2>1 DEF IInv, ShellFits
    <2>4. /\ cmds' \subseteq Commands /\ CommandsFit' /\ TunnelFits' /\ StopsFit'
          /\ \A d \in cmds' : Accepts(d)' <=> Accepts(d)
          /\ \E n \in Commands :
                /\ n.id = c.id /\ n.kind = c.kind /\ n.stage = "ended"
                /\ \A d \in cmds' : d = n \/ (d \in cmds /\ d # c /\ d.id # c.id)
      BY <2>1, <2>2, StageKeeps DEF SameRun
    <2>5. TypeOK' /\ ModelFits(ui)'
      BY <2>1, <2>4, TypeIs, TunnelIs, ModelIs
    <2>6. WaitersFit'
      BY <2>1, <2>3 DEF WaitersFit
    <2>7. ShellFits'
      <3>1. \A d \in cmds : d.id # c.id => d.stage # "shell"
        BY <2>3 DEF IInv, ShellFits, Accepts
      <3> QED
        BY <2>1, <2>3, <2>4, <3>1 DEF IInv, ShellFits
    <2> QED
      BY <2>1, <2>4, <2>5, <2>6, <2>7 DEF IInv
  <1> QED
    BY <1>1, <1>2

LEMMA RegisteredKeeps ==
    ASSUME IInv, NEW c, TunnelRegistered(c)
    PROVE  IInv' /\ ui'.leaving = ui.leaving
  <1>1. /\ c \in cmds /\ c.kind = "tunnel" /\ c.stage = "running" /\ Stage(c, "registered")
        /\ UNCHANGED <<ui, exec, small, resizes, stops>>
    BY DEF TunnelRegistered
  <1>2. tunnel.attempt + 2 <= c.id /\ c.id <= ui.last /\ ui.last <= MaxOperations + 1
    BY <1>1, ModelIs DEF IInv, TunnelFits, CommandsFit, OperationFits
  <1>3. tunnel'.attempt = tunnel.attempt + 1 /\ tunnel' \in Tunnels
    <2>1. tunnel.attempt + 1 \in 0..MaxOperations
      BY <1>1, <1>2, ModelIs
    <2> QED
      BY <2>1, TunnelIs DEF TunnelRegistered, Tunnels
  <1>4. [c EXCEPT !.stage = "registered"] \in Commands
    BY <1>1, ModelIs DEF Commands
  <1>5. /\ cmds' \subseteq Commands /\ CommandsFit' /\ TunnelFits' /\ StopsFit'
        /\ \A d \in cmds' : Accepts(d)' <=> Accepts(d)
        /\ \E n \in Commands :
              /\ n.id = c.id /\ n.kind = c.kind /\ n.stage = "registered"
              /\ \A d \in cmds' : d = n \/ (d \in cmds /\ d # c /\ d.id # c.id)
    BY <1>1, <1>3, <1>4, StageKeeps DEF SameRun
  <1>6. TypeOK' /\ ModelFits(ui)'
    BY <1>1, <1>3, <1>5, TypeIs, TunnelIs, ModelIs
  <1>7. WaitersFit'
    <2>1. ui.security.kind = "password" => ~Accepts(c)
      BY <1>1 DEF IInv, ModelFits, PromptFits, Accepts
    <2>2. \A d \in cmds' : d.id = c.id => (Accepts(d) => Accepts(c)) \/ d.kind # c.kind
      BY DEF Accepts
    <2> QED
      BY <1>1, <1>5, <2>1, <2>2 DEF IInv, WaitersFit
  <1>8. ShellFits'
    <2>1. \A d \in cmds : d.id # c.id /\ Accepts(d) => ui.leaving = "left"
      BY <1>1 DEF IInv, TunnelFits, Accepts
    <2> QED
      BY <1>1, <1>5, <2>1 DEF IInv, ShellFits
  <1> QED
    BY <1>1, <1>5, <1>6, <1>7, <1>8 DEF IInv

LEMMA StopConfirmedKeeps ==
    ASSUME IInv, StopConfirmed
    PROVE  IInv' /\ ui'.leaving = ui.leaving
  <1>1. /\ Owner(ui) = "modal" /\ stops < 1 /\ ui' = CloseModal(ui) /\ stops' = stops + 1
        /\ UNCHANGED <<cmds, exec, small, resizes, tunnel>>
    BY DEF StopConfirmed
  <1>2. stops' = 1 /\ stops' \in 0..MaxOperations
    BY <1>1, ModelIs, UIAssumption
  <1>3. Idle(ui) /\ ModelFits(ui') /\ Keeps(ui, ui') /\ ~ui.startup.present
    BY <1>1, OwnerIs, CloseModalIs, IdleIs DEF IInv
  <1>4. TypeOK' /\ ModelFits(ui)'
    BY <1>1, <1>2, <1>3, TypeIs, TunnelIs, ModelIs
  <1>5. \A c \in cmds : Accepts(c)' <=> Accepts(c)
    BY <1>3 DEF Accepts, Keeps
  <1>6. CommandsFit' /\ TunnelFits' /\ WaitersFit' /\ ShellFits'
    BY <1>1, <1>3, <1>5 DEF IInv, CommandsFit, TunnelFits, WaitersFit, ShellFits, Keeps, Live
  <1>7. StopsFit'
    <2>1. ui.last >= 1 /\ MaxOperations >= 1
      BY ModelIs, UIAssumption DEF OperationFits
    <2> QED
      BY <1>2, <1>3, <2>1, ModelIs DEF StopsFit, Keeps
  <1> QED
    BY <1>3, <1>4, <1>6, <1>7 DEF IInv, Keeps

---------------------------------------------------------------------------
(* The startup of a tunnel, and leaving.                                    *)

\* What is left when a startup is over: nothing runs, and the wish to quit that
\* came meanwhile may be taken up.
Ends(u, v) ==
    /\ ModelFits(v) /\ v.last = u.last /\ v.operation.kind = "none"
    /\ v.security.kind = "none" /\ LeavesFits(u, v)

LEMMA QuitIfEnds ==
    ASSUME NEW u, Idle(u), NEW quit \in BOOLEAN
    PROVE  Ends(u, QuitIf(quit, u))
  <1>1. u.security.kind = "none" /\ MayAsk(u)
    BY IdleIs
  <1>2. Ends(u, u)
    BY <1>1 DEF Ends, Idle, LeavesFits
  <1>3. Ends(u, RequestQuit(u))
    BY <1>1, RequestQuitIs DEF Ends, Idle, Kept, LeavesFits
  <1> QED
    BY <1>2, <1>3 DEF QuitIf

LEMMA OverIs ==
    ASSUME NEW u, ModelFits(u), u.operation.kind # "none",
           NEW y \in Models, y.last = u.last, y.security.kind = "none", y.startup = NoStartup,
           y.modal = u.modal, y.under = u.under, y.screen = u.screen, y.operation = NoOperation
    PROVE  Idle(y)
  <1>1. NoOperation.kind = "none" /\ ~NoOperation.quit /\ ~NoStartup.present
    BY DEF NoOperation, NoStartup
  <1>2. u.last \in 1..(MaxOperations + 1) /\ u.under \in Seq(Modals) /\ Len(u.under) <= 1
    BY DEF ModelFits, OperationFits, DialogFits, Models
  <1>3. OperationFits(y) /\ StartupFits(y) /\ PromptFits(y)
    BY <1>1, <1>2 DEF OperationFits, StartupFits, PromptFits
  <1>4. DialogFits(y)
    BY <1>1, <1>2, Len(u.under) \in Nat DEF DialogFits, ModelFits
  <1> QED
    BY <1>1, <1>2, <1>3, <1>4 DEF Idle, ModelFits

LEMMA CloseStartIs ==
    ASSUME NEW u, Idle(u)
    PROVE  /\ Idle(CloseStart(u)) /\ Keeps(u, CloseStart(u))
           /\ u.modal.kind # "quit" => MayClose(CloseStart(u))
  <1>1. CASE u.modal.kind = "start"
    <2>1. Idle(CloseModal(u)) /\ Keeps(u, CloseModal(u)) /\ CloseModal(u).modal.kind = "none"
      BY ClosedAfter, CloseModalIs, NoModal.kind = "none" DEF Idle, NoModal, Modal
    <2> QED
      BY <1>1, <2>1, IdleIs DEF CloseStart, MayClose
  <1>2. CASE u.modal.kind # "start"
    BY <1>2, IdleIs, KeepsItself DEF CloseStart, MayClose
  <1> QED
    BY <1>1, <1>2

LEMMA StartupOverIs ==
    ASSUME NEW u, ModelFits(u), u.operation.kind # "none"
    PROVE  LET v == StartupOver(u) IN
           /\ Idle(v) /\ v.last = u.last /\ v.leaving = u.leaving /\ v.modal = u.modal
           /\ v.startup = NoStartup /\ v.security = NoSecurity /\ v.operation = NoOperation
  <1> DEFINE w == ClearSecurity(u)
             x == [w EXCEPT !.operation = NoOperation]
             v == StartupOver(u)
  <1>1. /\ NoOperation \in Operations /\ NoSecurity.kind = "none" /\ NoStartup \in Startups
    BY UIAssumption DEF NoOperation, Operations, OperationIds, NoSecurity, NoStartup, Startups
  <1>2. /\ ModelFits(w) /\ w.security = NoSecurity /\ w.last = u.last /\ w.leaving = u.leaving
        /\ w.modal = u.modal /\ w.under = u.under /\ w.screen = u.screen
    BY ClearSecurityIs
  <1> HIDE DEF w
  <1>3. v = [x EXCEPT !.startup = NoStartup]
    BY DEF StartupOver, CompleteOperation, w
  <1>4. /\ x \in Models /\ x.operation = NoOperation /\ x.security = NoSecurity
        /\ x.last = u.last /\ x.leaving = u.leaving
        /\ x.modal = u.modal /\ x.under = u.under /\ x.screen = u.screen
    BY <1>1, <1>2 DEF ModelFits, Models
  <1> HIDE DEF x
  <1>5. /\ v \in Models /\ v.operation = NoOperation /\ v.security = NoSecurity
        /\ v.startup = NoStartup /\ v.last = u.last /\ v.leaving = u.leaving
        /\ v.modal = u.modal /\ v.under = u.under /\ v.screen = u.screen
    BY <1>1, <1>3, <1>4 DEF Models
  <1> HIDE DEF v
  <1>6. Idle(v)
    BY <1>1, <1>5, OverIs
  <1> QED
    BY <1>5, <1>6 DEF v

\* finishTunnelStartup: nothing, the order to stop, or the end of the startup.
LEMMA FinishStartupIs ==
    ASSUME NEW u, ModelFits(u)
    PROVE  LET v == FinishStartup(u) IN
           \/ v = u /\ ~OrdersStop(u)
           \/ /\ u.startup.present /\ u.startup.attempt > 0 /\ StopsCanceled(u)
              /\ v = [u EXCEPT !.startup.stopping = TRUE]
           \/ /\ u.startup.present /\ u.startup.attempt > 0 /\ ~OrdersStop(u)
              /\ Ends(u, v)
  <1> DEFINE v == FinishStartup(u)
             form == CloseStart(StartupOver(u))
             after == IF tunnel.state = "active" THEN CloseForm(form) ELSE form
  <1>0. u \in Models /\ u.startup.attempt \in Nat /\ u.operation.quit \in BOOLEAN
    BY UIAssumption DEF ModelFits, Models, Startups, Operations
  <1>1. CASE v = u /\ ~OrdersStop(u)
    BY <1>1
  <1>2. CASE u.startup.present /\ u.startup.attempt > 0 /\ StopsCanceled(u)
    BY <1>2 DEF FinishStartup
  <1>3. CASE u.startup.present /\ u.startup.attempt > 0 /\ ~StopsCanceled(u) /\ v # u
    <2>1. v = QuitIf(u.operation.quit, after) /\ u.modal.kind # "quit"
      BY <1>3 DEF FinishStartup
    <2>2. u.operation.kind # "none"
      BY <1>3 DEF ModelFits, StartupFits
    <2>3. /\ Idle(StartupOver(u)) /\ StartupOver(u).last = u.last
          /\ StartupOver(u).leaving = u.leaving /\ StartupOver(u).modal = u.modal
      BY <2>2, StartupOverIs
    <2>4. /\ Idle(form) /\ MayClose(form) /\ form.last = u.last /\ form.leaving = u.leaving
      BY <2>1, <2>3, CloseStartIs DEF Keeps
    <2> HIDE DEF form
    <2>5. /\ Idle(after) /\ after.last = u.last /\ after.leaving = u.leaving
      BY <2>4, CloseFormIs, AfterKeeps DEF Idle, Keeps
    <2> HIDE DEF after
    <2>6. Ends(after, v)
      BY <1>0, <2>1, <2>5, QuitIfEnds
    <2> QED
      BY <1>3, <2>5, <2>6 DEF Ends, LeavesFits, OrdersStop
  <1>4. (u.startup.present /\ u.startup.attempt > 0) \/ (v = u /\ ~OrdersStop(u))
    BY <1>0 DEF FinishStartup, OrdersStop, StopsCanceled
  <1>5. ~StopsCanceled(u) => ~OrdersStop(u)
    BY DEF OrdersStop
  <1> QED
    BY <1>1, <1>2, <1>3, <1>4, <1>5

\* The loop follows a startup, in the Model as it is or once it knows the attempt.
LEMMA FollowKeeps ==
    ASSUME IInv, NEW u, ModelFits(u), u.last = ui.last, u.operation = ui.operation,
           u.security = ui.security, u.leaving = ui.leaving,
           u.startup.present <=> ui.startup.present,
           u.startup.stopping <=> ui.startup.stopping,
           Follow(u), Ready, cmds' \subseteq cmds,
           u.startup.present /\ u.startup.attempt > 0 => \A c \in cmds' : c.kind # "tunnel",
           UNCHANGED <<exec, small, resizes, tunnel>>
    PROVE  IInv' /\ LeavesFits(ui, ui')
  <1>0. u \in Models /\ u.startup \in Startups /\ u.startup.attempt \in Nat
    BY UIAssumption DEF ModelFits, Models, Startups
  <1>1. exec # "shell" /\ ui.leaving # "left"
    BY DEF Ready
  <1>2. CASE \/ ui' = u /\ ~OrdersStop(u)
             \/ (/\ u.startup.present /\ u.startup.attempt > 0
                 /\ StopsCanceled(u) /\ ui' = [u EXCEPT !.startup.stopping = TRUE])
    <2> DEFINE s == [u.startup EXCEPT !.stopping = TRUE]
    <2>1. /\ s \in Startups /\ s.stopping
          /\ s.present <=> u.startup.present
          /\ s.attempt = u.startup.attempt
      BY <1>0 DEF Startups
    <2>2. ui' = u \/ (u.startup.present /\ ui' = [u EXCEPT !.startup = s])
      BY <1>2
    <2> HIDE DEF s
    <2>3. /\ ui' \in Models /\ ui'.last = u.last /\ ui'.operation = u.operation
          /\ ui'.security = u.security /\ ui'.leaving = u.leaving /\ ui'.modal = u.modal
          /\ ui'.under = u.under /\ ui'.screen = u.screen
          /\ ui'.startup = u.startup \/ (u.startup.present /\ ui'.startup = s)
      BY <1>0, <2>1, <2>2 DEF Models
    <2>4. ModelFits(ui')
      <3>1. OperationFits(ui') /\ StartupFits(ui') /\ PromptFits(ui') /\ DialogFits(ui')
        BY <2>1, <2>3 DEF ModelFits, OperationFits, StartupFits, PromptFits, DialogFits
      <3> QED
        BY <2>3, <3>1 DEF ModelFits
    <2>5. \/ stops' = stops /\ (ui'.startup.present /\ ~ui'.startup.stopping =>
                                   ui.startup.present /\ ~ui.startup.stopping)
          \/ /\ stops' = stops + 1 /\ ui.startup.present /\ ~ui.startup.stopping
             /\ ui'.startup.stopping
      <3>1. CASE ui' = u /\ ~OrdersStop(u)
        BY <3>1 DEF Follow
      <3>2. CASE OrdersStop(u)
        <4>1. ui' = [u EXCEPT !.startup.stopping = TRUE]
          BY <1>2, <3>2
        <4>2. ui'.startup = s
          BY <1>0, <4>1 DEF Models, s
        <4> QED
          BY <2>1, <3>2, <4>2 DEF Follow, OrdersStop, StopsCanceled
      <3>3. CASE ~OrdersStop(u) /\ StopsCanceled(u)
        BY <2>1, <2>3, <3>3 DEF Follow, OrdersStop
      <3> QED
        BY <1>2, <3>1, <3>2, <3>3
    <2>6. stops' \in 0..MaxOperations /\ StopsFit'
      <3>1. ui.startup.present => ui.last <= MaxOperations
        BY DEF IInv, ModelFits, StartupFits, OperationFits
      <3> QED
        BY <2>3, <2>5, <3>1, ModelIs DEF IInv, StopsFit
    <2>7. TypeOK' /\ ModelFits(ui)'
      BY <1>1, <2>4, <2>6, TypeIs, TunnelIs, ModelIs
    <2>8. \A c \in cmds' : c \in cmds /\ (Accepts(c)' <=> Accepts(c))
      BY <2>3 DEF Accepts
    <2>9. CommandsFit' /\ WaitersFit' /\ ShellFits'
      BY <1>1, <2>3, <2>8 DEF IInv, CommandsFit, WaitersFit, ShellFits, Live
    <2>10. TunnelFits'
      <3>1. \A c \in cmds' : c.kind = "tunnel" /\ ui'.startup.present => ui'.startup.attempt = 0
        BY <1>0, <2>1, <2>3
      <3> QED
        BY <2>3, <2>8, <3>1 DEF IInv, TunnelFits
    <2> QED
      BY <2>3, <2>6, <2>7, <2>9, <2>10 DEF IInv, LeavesFits
  <1>3. CASE /\ u.startup.present /\ u.startup.attempt > 0 /\ ~OrdersStop(u)
             /\ Ends(u, ui')
    <2>1. stops' = stops
      BY <1>3 DEF Follow
    <2> QED
      BY <1>1, <1>3, <2>1, OverKeeps DEF Ends, LeavesFits
  <1> QED
    BY <1>2, <1>3, FinishStartupIs DEF Follow

LEMMA StartupKeeps ==
    ASSUME IInv, Poll \/ (\E c \in cmds : TunnelStarted(c) \/ TunnelRefused(c))
    PROVE  IInv' /\ LeavesFits(ui, ui')
  <1>1. CASE Poll
    <2>1. ui.startup.present /\ ui.startup.attempt > 0 => \A c \in cmds : c.kind # "tunnel"
      BY DEF IInv, TunnelFits
    <2> QED
      BY <1>1, <2>1, FollowKeeps, ModelIs DEF Poll
  <1>2. ASSUME NEW c \in cmds, TunnelStarted(c) PROVE IInv' /\ LeavesFits(ui, ui')
    <2>1. /\ Ready /\ c.kind = "tunnel" /\ cmds' = cmds \ {c}
          /\ UNCHANGED <<exec, small, resizes, tunnel>> /\ exec # "shell" /\ ui.leaving # "left"
      BY <1>2 DEF TunnelStarted, Ready
    <2>2. \A d \in cmds' : d.kind # "tunnel"
      BY <2>1 DEF IInv, TunnelFits
    <2>3. CASE UNCHANGED <<ui, stops>>
      BY <2>1, <2>3, KeptKeeps, ModelIs DEF Kept, LeavesFits
    <2>4. CASE Accepts(c) /\ ui.startup.present
      <3> DEFINE s == [ui.startup EXCEPT !.attempt = tunnel.attempt]
                 u == [ui EXCEPT !.startup.attempt = tunnel.attempt]
      <3>1. /\ s \in Startups /\ s.attempt = tunnel.attempt
            /\ s.present <=> ui.startup.present
            /\ s.stopping <=> ui.startup.stopping
        BY ModelIs, TunnelIs DEF Startups, Tunnels
      <3>2. u = [ui EXCEPT !.startup = s]
        BY ModelIs DEF Models
      <3> HIDE DEF s
      <3>3. /\ u \in Models /\ u.last = ui.last /\ u.operation = ui.operation
            /\ u.security = ui.security /\ u.leaving = ui.leaving /\ u.modal = ui.modal
            /\ u.under = ui.under /\ u.screen = ui.screen /\ u.startup = s
        BY <3>1, <3>2, ModelIs DEF Models
      <3>4. Follow(u)
        BY <1>2, <2>4 DEF TunnelStarted
      <3> HIDE DEF u
      <3>5. ModelFits(u)
        <4>1. OperationFits(u) /\ StartupFits(u) /\ PromptFits(u) /\ DialogFits(u)
          BY <2>4, <3>1, <3>3, ModelIs DEF ModelFits, OperationFits, StartupFits, PromptFits, DialogFits
        <4> QED
          BY <3>3, <4>1 DEF ModelFits
      <3> QED
        BY <2>1, <2>2, <3>1, <3>3, <3>4, <3>5, FollowKeeps
    <2> QED
      BY <1>2, <2>3, <2>4 DEF TunnelStarted
  <1>3. ASSUME NEW c \in cmds, TunnelRefused(c) PROVE IInv' /\ LeavesFits(ui, ui')
    <2>1. /\ c.kind = "tunnel" /\ c.stage = "running" /\ cmds' = cmds \ {c}
          /\ UNCHANGED <<exec, small, resizes, tunnel, stops>>
          /\ exec # "shell" /\ ui.leaving # "left"
      BY <1>3 DEF TunnelRefused, Ready
    <2>2. \A d \in cmds' : d.kind # "tunnel"
      BY <2>1 DEF IInv, TunnelFits
    <2>3. CASE UNCHANGED ui
      BY <2>1, <2>3, KeptKeeps, ModelIs DEF Kept, LeavesFits
    <2>4. CASE Accepts(c) /\ ui.startup.present
      <3> DEFINE x == CompleteOperation(ui)
                 y == [x EXCEPT !.startup = NoStartup]
      <3>1. ui.operation.kind = "tunnel" /\ ui.security.kind = "none"
        BY <2>1, <2>4 DEF IInv, WaitersFit, Accepts
      <3>2. NoOperation \in Operations /\ NoStartup \in Startups
        BY UIAssumption DEF NoOperation, Operations, OperationIds, NoStartup, Startups
      <3>3. /\ x \in Models /\ x.operation = NoOperation /\ x.security = ui.security
            /\ x.last = ui.last /\ x.leaving = ui.leaving
            /\ x.modal = ui.modal /\ x.under = ui.under /\ x.screen = ui.screen
        BY <3>2, ModelIs DEF CompleteOperation, Models
      <3> HIDE DEF x
      <3>4. /\ y \in Models /\ y.operation = NoOperation /\ y.security = ui.security
            /\ y.startup = NoStartup /\ y.last = ui.last /\ y.leaving = ui.leaving
            /\ y.modal = ui.modal /\ y.under = ui.under /\ y.screen = ui.screen
        BY <3>2, <3>3 DEF Models
      <3>5. ui' = QuitIf(ui.operation.quit, CloseStart(y))
        BY <1>3, <2>4 DEF TunnelRefused, x
      <3> HIDE DEF y
      <3>6. Idle(y)
        BY <3>1, <3>4, OverIs, ModelIs
      <3>7. Idle(CloseStart(y)) /\ Keeps(y, CloseStart(y))
        BY <3>6, CloseStartIs
      <3>8. Ends(CloseStart(y), ui')
        BY <3>5, <3>7, QuitIfEnds, ModelIs DEF Operations
      <3> QED
        BY <2>1, <2>2, <3>4, <3>7, <3>8, OverKeeps DEF Ends, Keeps, LeavesFits
    <2> QED
      BY <1>3, <2>3, <2>4 DEF TunnelRefused
  <1> QED
    BY <1>1, <1>2, <1>3

LEMMA LeaveKeeps ==
    ASSUME IInv, Leave \/ CloseFails
    PROVE  IInv' /\ ui.leaving = "closing"
  <1>1. /\ UNCHANGED <<cmds, exec, small, resizes, stops>> /\ exec # "shell"
        /\ ui.leaving = "closing"
    BY DEF Leave, CloseFails, Ready
  <1>2. tunnel' \in Tunnels /\ tunnel'.attempt = tunnel.attempt /\ ~Live'
    <2>1. \E s \in {"stopped", "failed"} :
             tunnel' = [tunnel EXCEPT !.closed = TRUE, !.state = IF Live THEN s ELSE @]
      BY DEF Leave, CloseFails
    <2> QED
      BY <2>1, TunnelIs DEF Tunnels, Live
  <1>3. ASSUME NEW u, ModelFits(u), u.last = ui.last,
               u.security = ui.security \/ u.security = NoSecurity,
               \/ u.operation = ui.operation /\ u.startup = ui.startup
               \/ u.operation = NoOperation /\ u.startup = NoStartup /\ u.security = NoSecurity,
               NEW l \in {"no", "left"}, ui' = [u EXCEPT !.leaving = l],
               u.operation = ui.operation \/ l = "left"
        PROVE  IInv'
    <2>1. /\ ui' \in Models /\ ui'.last = u.last /\ ui'.operation = u.operation
          /\ ui'.security = u.security /\ ui'.leaving = l /\ ui'.modal = u.modal
          /\ ui'.under = u.under /\ ui'.screen = u.screen /\ ui'.startup = u.startup
      BY <1>3 DEF ModelFits, Models
    <2>2. ModelFits(ui')
      <3>1. OperationFits(ui') /\ StartupFits(ui') /\ PromptFits(ui') /\ DialogFits(ui')
        BY <1>3, <2>1 DEF ModelFits, OperationFits, StartupFits, PromptFits, DialogFits
      <3> QED
        BY <2>1, <3>1 DEF ModelFits
    <2>3. TypeOK' /\ ModelFits(ui)'
      BY <1>1, <1>2, <2>2, TypeIs, TunnelIs, ModelIs
    <2>4. NoSecurity.kind = "none" /\ ~NoStartup.present /\ NoOperation.kind = "none"
      BY DEF NoSecurity, NoStartup, NoOperation
    <2>5. \A c \in cmds : Accepts(c)' => Accepts(c) /\ ui'.operation = ui.operation
      BY <1>3, <2>1, <2>4, ModelIs DEF Accepts, Commands, OperationKinds
    <2>6. CommandsFit'
      BY <1>1, <1>3, <2>1 DEF IInv, CommandsFit
    <2>7. TunnelFits'
      <3>1. \A c \in cmds : c.kind = "tunnel" => Accepts(c)' \/ ui'.leaving = "left"
        BY <1>1, <1>3, <2>1 DEF IInv, TunnelFits, Accepts
      <3>2. \A c \in cmds : c.kind = "tunnel" /\ ui'.startup.present => ui'.startup.attempt = 0
        BY <1>3, <2>1, <2>4 DEF IInv, TunnelFits
      <3> QED
        BY <1>1, <1>2, <1>3, <2>1, <3>1, <3>2 DEF IInv, TunnelFits
    <2>8. WaitersFit'
      BY <1>1, <1>3, <2>1, <2>4, <2>5 DEF IInv, WaitersFit
    <2>9. ShellFits'
      BY <1>1, <1>2, <1>3, <2>1, <2>4, <2>5 DEF IInv, ShellFits
    <2>10. StopsFit'
      BY <1>1, <1>3, <2>1, <2>4, ModelIs DEF IInv, StopsFit
    <2> QED
      BY <2>3, <2>6, <2>7, <2>8, <2>9, <2>10 DEF IInv
  <1>4. CASE CloseFails
    BY <1>1, <1>3, <1>4, ModelIs DEF CloseFails
  <1>5. CASE Leave /\ ~ui.startup.present
    BY <1>1, <1>3, <1>5, ModelIs DEF Leave
  <1>6. CASE Leave /\ ui.startup.present
    <2> DEFINE u == StartupOver(ui)
    <2>1. /\ Idle(u) /\ u.last = ui.last
          /\ u.startup = NoStartup /\ u.security = NoSecurity /\ u.operation = NoOperation
      BY <1>6, StartupOverIs, ModelIs DEF ModelFits, StartupFits
    <2>2. ui' = [u EXCEPT !.leaving = "left"]
      BY <1>6 DEF Leave
    <2> HIDE DEF u
    <2> QED
      BY <1>1, <1>3, <2>1, <2>2 DEF Idle
  <1> QED
    BY <1>1, <1>4, <1>5, <1>6

---------------------------------------------------------------------------
(* The invariant, and what follows from it.                                 *)

LEMMA InitFits == Init => IInv
  <1> SUFFICES ASSUME Init PROVE IInv
    OBVIOUS
  <1>1. /\ NoModal \in Modals /\ NoModal.kind = "none"
        /\ <<>> \in Seq(Modals) /\ Len(<<>>) = 0
    BY DEF NoModal, Modal, Modals, ModalKinds
  <1>2. NoSecurity \in Prompts /\ NoSecurity.kind = "none"
    BY DEF NoSecurity, Prompts
  <1>3. NoStartup \in Startups /\ ~NoStartup.present
    BY UIAssumption DEF NoStartup, Startups
  <1> DEFINE o == [NoOperation EXCEPT !.id = 1, !.kind = "reload"]
  <1>4. /\ o \in Operations /\ o.id = 1 /\ o.kind = "reload" /\ 1 \in OperationIds
    <2>1. MaxOperations \in Nat /\ 0 \in OperationIds /\ 1 \in OperationIds
      BY UIAssumption DEF OperationIds
    <2>2. NoOperation \in Operations
      BY <2>1 DEF NoOperation, Operations
    <2> QED
      BY <2>1, <2>2 DEF Operations, OperationKinds
  <1> HIDE DEF o
  <1>5. /\ ui.screen = "browser" /\ ui.modal = NoModal /\ ui.under = <<>> /\ ui.last = 1
        /\ ui.operation = o /\ ui.security = NoSecurity /\ ui.startup = NoStartup
        /\ ui.leaving = "no"
    BY DEF Init, o
  <1>6. ui \in Models
    BY <1>1, <1>2, <1>3, <1>4 DEF Init, Models, o
  <1>7. OperationFits(ui)
    BY <1>4, <1>5, UIAssumption DEF OperationFits
  <1>8. StartupFits(ui) /\ PromptFits(ui) /\ DialogFits(ui)
    BY <1>1, <1>2, <1>3, <1>4, <1>5 DEF StartupFits, PromptFits, DialogFits
  <1>9. PICK c \in Commands : cmds = {c} /\ c.id = 1 /\ c.kind = "reload" /\ c.stage = "running"
    <2> DEFINE c == [id |-> 1, kind |-> "reload", stage |-> "running"]
    <2>1. c \in Commands /\ cmds = {c}
      BY <1>4 DEF Init, Commands, OperationKinds
    <2> QED
      BY <2>1
  <1>10. TypeOK
    <2>1. stops \in 0..MaxOperations /\ resizes \in 0..MaxResizes
      BY UIAssumption DEF Init
    <2>2. tunnel \in Tunnels
      BY UIAssumption DEF Init, Tunnels
    <2>3. small \in BOOLEAN /\ exec \in {"none", "reading", "answered", "shell"}
      BY DEF Init
    <2> QED
      BY <1>1, <1>5, <1>6, <1>9, <2>1, <2>2, <2>3 DEF TypeOK, Tunnels
  <1>11. CommandsFit /\ TunnelFits /\ WaitersFit /\ ShellFits /\ StopsFit
    BY <1>2, <1>3, <1>5, <1>9, UIAssumption DEF Init, CommandsFit, TunnelFits, WaitersFit, ShellFits, StopsFit
  <1> QED
    BY <1>6, <1>7, <1>8, <1>10, <1>11 DEF IInv, ModelFits

\* One step: the invariant, and nobody leaves over a tunnel without being asked.
LEMMA StepKeeps ==
    ASSUME IInv, [Next]_vars
    PROVE  /\ IInv'
           /\ ui'.leaving = ui.leaving \/ ui.leaving = "closing" \/ LeavesFits(ui, ui')
  <1>1. CASE LoopKey
    BY <1>1, LoopKeys DEF Handles
  <1>2. CASE \E c \in cmds : \E result \in Outcomes(c) : Deliver(c, result)
    BY <1>2, DeliverKeeps DEF Handles
  <1>3. CASE \E c \in cmds : SessionPrompts(c) \/ PasswordPrompts(c)
    BY <1>3, AsksKeeps
  <1>4. CASE \E c \in cmds : ShellBegins(c) \/ ShellEnds(c)
    BY <1>4, ShellKeeps
  <1>5. CASE Poll \/ \E c \in cmds : TunnelStarted(c) \/ TunnelRefused(c)
    BY <1>5, StartupKeeps
  <1>6. CASE Leave \/ CloseFails
    BY <1>6, LeaveKeeps
  <1>7. CASE TunnelPrompts
    BY <1>7, TunnelPromptsKeeps
  <1>8. CASE ReadingHandled \/ AnswerTrust
    BY <1>8, AnswersKeep
  <1>9. CASE \E c \in cmds : SessionAsks(c) \/ SessionActivates(c)
    BY <1>9, SessionKeeps DEF SessionAsks, SessionActivates
  <1>10. CASE \E c \in cmds : TunnelRegistered(c)
    BY <1>10, RegisteredKeeps
  <1>11. CASE TunnelAsks \/ (\E state \in {"active", "failed"} : TunnelEnds(state)) \/ DismissTunnel
    BY <1>11, AttemptKeeps
  <1>12. CASE StopRuns
    BY <1>12, StopKeeps
  <1>13. CASE ReadingSuspended \/ ReadingEnds \/ Shrink \/ Grow
    BY <1>13, WindowKeeps
  <1>14. CASE StopConfirmed
    BY <1>14, StopConfirmedKeeps
  <1>15. CASE UNCHANGED vars
    <2>1. UNCHANGED <<ui, cmds, exec, small, resizes, tunnel, stops>> /\ (Live' <=> Live)
      BY <1>15 DEF vars, Live
    <2> QED
      BY <2>1, QuietKeeps, TunnelIs, ModelIs DEF SameRun
  <1> QED
    BY <1>1, <1>2, <1>3, <1>4, <1>5, <1>6, <1>7, <1>8, <1>9, <1>10, <1>11, <1>12, <1>13, <1>14,
       <1>15 DEF Next, Keys, Messages, Others, LoopKey

\* The invariant of the interface holds in every state that it can reach.
THEOREM InterfaceInvariant == Spec => []IInv
  <1>1. Init => IInv
    BY InitFits
  <1>2. IInv /\ [Next]_vars => IInv'
    BY StepKeeps
  <1> QED
    BY <1>1, <1>2, PTL DEF Spec

\* The Model, the commands and the tunnel keep their types, and every counter
\* its bound: the operations, the attempts of a tunnel and the calls of Stop
\* are limited by the operations that the user starts.
THEOREM InterfaceTypes == Spec => []TypeOK
  <1>1. IInv => TypeOK
    BY DEF IInv
  <1> QED
    BY <1>1, InterfaceInvariant, PTL

\* The loop never follows a startup whose operation or form is gone, so that
\* finishTunnelStartup finds both.
THEOREM StartupsAreOwned == Spec => []StartupHasOwner
  <1>1. IInv => StartupHasOwner
    BY DEF IInv, ModelFits, StartupFits, StartupHasOwner
  <1> QED
    BY <1>1, InterfaceInvariant, PTL

\* A prompt is never left behind by its operation, to take every key for an
\* answer that nobody awaits.
THEOREM PromptsAreOwned == Spec => []PromptHasOperation
  <1>1. IInv => PromptHasOperation
    BY DEF IInv, ModelFits, PromptFits, PromptHasOperation
  <1> QED
    BY <1>1, InterfaceInvariant, PTL

\* The program does not set out to leave over a live tunnel unless the question
\* of leaving was open, whichever handler took up the wish to quit.
THEOREM LeavingNeedsConsent == Spec => TunnelsNeedConsent
  <1>1. IInv /\ [Next]_vars =>
           [ui.leaving = "no" /\ ui'.leaving # "no" /\ Live => ui.modal.kind = "quit"]_vars
    BY StepKeeps DEF LeavesFits
  <1> QED
    BY <1>1, InterfaceInvariant, PTL DEF Spec, TunnelsNeedConsent

=============================================================================
