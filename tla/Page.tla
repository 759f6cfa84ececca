-------------------------------- MODULE Page --------------------------------
(***************************************************************************)
(* The browser's page (src/index.html): the menu and its views, the        *)
(* terminals in their tabs, the Change Server dialog, the label with the   *)
(* server's address, and the table with a query's result.                  *)
(*                                                                         *)
(* Everything runs in the browser's one thread and a handler is one step;  *)
(* what makes it hard is that answers come when they like, while the user  *)
(* has gone on, and that all terminals share termlib's two globals: the    *)
(* lock of the keyboard and the terminal that keys go to.                  *)
(*                                                                         *)
(* The server is outside: it is OneSession, which Session implements, and  *)
(* a connect goes through OneSession's steps.  Requests and answers may be *)
(* lost; to webix.ajax a request that ends without an answer, with status  *)
(* 0, is no error, and the page does what it does for an answer.           *)
(***************************************************************************)
EXTENDS Integers, Sequences, SequencesExt

CONSTANTS
  Terminals,  \* the tabs of the console, in their order
  Views,      \* what the menu offers
  Console,    \* the view with the terminals
  Hosts, Ports, Namespaces,
  Default,    \* the server named in server.py, and the namespace it starts with
  Forms,      \* what the user may fill the dialog with; see Form
  BadPort,    \* a port field that int() rejects
  None,       \* nothing shown; a field left empty
  Connects,   \* the times the user presses Change
  MaxAsked    \* bound: queries the user runs

Address == [host : Hosts, port : Ports, ns : Namespaces]
\* FieldStorage drops a field that is empty.
Form == [kind : {"connect"}, host : Hosts \cup {None},
         port : Ports \cup {BadPort, None}, ns : Namespaces \cup {None}]

ASSUME PageAssumption ==
  /\ Terminals \in Seq(ToSet(Terminals)) /\ Terminals # <<>> /\ IsInjective(Terminals)
  /\ Console \in Views /\ Default \in Address /\ Forms \subseteq Form
  /\ BadPort \notin Ports /\ None \notin Hosts \cup Ports \cup Namespaces \cup Forms
  /\ MaxAsked \in Nat

VARIABLES
  view,        \* the menu's choice
  dialog,      \* "open" or "hidden": ui_change_server, a modal window
  tabs, shown, \* the tabview's options and its value
  opened,      \* terminals that have been shown once
  keylock,     \* TermGlobals.keylock
  activeTerm,  \* TermGlobals.activeTerm
  connects,    \* each /connect/ of the dialog, for the page
  form,        \* its form
  thread,      \* its thread at the server
  config,      \* /get_config/ of the page's start
  label,       \* label_orion_address
  session,     \* the server's session
  queries,     \* each /execute_query/, in the order asked
  result,      \* sql_result: the query whose answer it shows, 0 if empty
  \* history variables: no code reads them
  blame,       \* what can have parted label and session
  hasty        \* a query was asked before the one before it was answered

keyboard == <<view, dialog, tabs, shown, opened, keylock, activeTerm>>
address  == <<connects, form, thread, config, label, session, blame>>
table    == <<queries, result, hasty>>
vars     == <<keyboard, address, table>>

Tabs == ToSet(Terminals)

\* The server as the connects see it: a connect has no use for what it reads.
Server == INSTANCE OneSession
  WITH Requests <- Connects, pc <- thread, target <- <<>>, Upper <- <<>>

\* The thread of connect r may still write.
Writing(r) == thread[r] \in {"writeHost", "writePort", "writeNs"}
Busy(r) == connects[r] = "sent" \/ Writing(r)
-----------------------------------------------------------------------------
(* The keyboard.  The dialog is modal: under it nothing can be clicked.    *)

\* Mutant: no view locks the keyboard.
NeverLocked(v) == FALSE
Locked(v) == v # Console

(* sidemenu's onItemClick. *)
Menu(v) ==
  /\ dialog = "hidden"
  /\ view' = v
  /\ keylock' = Locked(v)
  /\ UNCHANGED <<dialog, tabs, shown, opened, activeTerm, address, table>>

(* A terminal that is shown for the first time is opened: it takes the     *)
(* keys and locks the keyboard.                                            *)
Shows(t) ==
  /\ shown' = t
  /\ opened' = opened \cup {t}
  /\ IF t \in opened THEN UNCHANGED <<keylock, activeTerm>>
                     ELSE keylock' = TRUE /\ activeTerm' = t

\* Mutant: only open() makes a terminal the active one.
FirstFocus(t) == IF t \in opened THEN activeTerm ELSE t
Focus(t) == t

(* onAfterTabClick gives the terminal the focus and unlocks the keyboard. *)
TabClick(t) ==
  /\ view = Console /\ dialog = "hidden" /\ t \in ToSet(tabs)
  /\ shown' = t /\ opened' = opened \cup {t}
  /\ keylock' = FALSE /\ activeTerm' = Focus(t)
  /\ UNCHANGED <<view, dialog, tabs, address, table>>

\* Mutant: the choice is not changed.
Itself(i) == tabs[i]
(* removeOption's choice: what moves into the place of tab i, or the last. *)
Neighbour(i) ==
  LET rest == RemoveAt(tabs, i)
  IN  rest[IF i < Len(rest) THEN i ELSE Len(rest)]

(* The cross of the i-th tab; the first has none.  The terminal is         *)
(* destroyed, but not for termlib, and its neighbour is shown without a    *)
(* click on its tab.                                                       *)
CloseTab(i) ==
  /\ view = Console /\ dialog = "hidden"
  /\ i \in 2 .. Len(tabs)
  /\ tabs' = RemoveAt(tabs, i)
  /\ IF shown = tabs[i] THEN Shows(Neighbour(i))
                        ELSE UNCHANGED <<shown, opened, keylock, activeTerm>>
  /\ UNCHANGED <<view, dialog, address, table>>

form_change_server ==
  /\ dialog = "hidden"
  /\ dialog' = "open" /\ keylock' = TRUE
  /\ UNCHANGED <<view, tabs, shown, opened, activeTerm, address, table>>

Cancel ==
  /\ dialog = "open"
  /\ dialog' = "hidden" /\ keylock' = FALSE
  /\ UNCHANGED <<view, tabs, shown, opened, activeTerm, address, table>>

-----------------------------------------------------------------------------
(* Connecting. *)

(* The Change button.  The dialog stays, and can be used again. *)
onChangeServer(r) ==
  /\ dialog = "open" /\ connects[r] = "unused"
  /\ connects' = [connects EXCEPT ![r] = "sent"]
  /\ \E f \in Forms : form' = [form EXCEPT ![r] = f]
  /\ thread' = [thread EXCEPT ![r] = "writeHost"]
  /\ blame' = blame \cup (IF \E q \in Connects : Busy(q) THEN {"overlap"} ELSE {})
  /\ UNCHANGED <<keyboard, config, label, session, table>>

\* form['host'] and form['port'] are there.
Complete(r) == None \notin {form[r].host, form[r].port}

(* The connect's thread stores one field, or is dropped at the port; a      *)
(* KeyError drops it before it stores any.                                 *)
Handle(r) ==
  /\ Writing(r)
  /\ IF Complete(r)
     THEN Server!WriteHost(r) \/ Server!WritePort(r) \/ Server!WriteNs(r)
     ELSE /\ thread' = [thread EXCEPT ![r] = "dropped"]
          /\ UNCHANGED <<form, session>>
  /\ UNCHANGED <<keyboard, connects, config, label, blame, table>>

\* Mutant: the label shows what the server was started with.
AddressAsConfigured(r) == Default
(* The address is made of the fields as they were when Change was pressed. *)
AddressOf(r) == [host |-> form[r].host, port |-> form[r].port, ns |-> form[r].ns]

(* An address leads to the session if each part it has is the session's. *)
LeadsTo(a) ==
  a.host = session.host /\ a.port = session.port /\ a.ns \in {session.ns, None}

(* success: nothing in it depends on the answer. *)
Success(r) ==
  /\ connects[r] = "sent"
  /\ connects' = [connects EXCEPT ![r] = "done"]
  /\ keylock' = FALSE /\ dialog' = "hidden"
  /\ label' = AddressOf(r)
  /\ UNCHANGED <<view, tabs, shown, opened, activeTerm, form, config, session, table>>

\* The label is right, and no other connect is left to change that.
Settled(r) == LeadsTo(label') /\ \A q \in Connects \ {r} : ~Busy(q)

Connected(r) ==
  /\ thread[r] = "respond" /\ UNCHANGED thread
  /\ Success(r)
  /\ blame' = IF Settled(r) THEN {} ELSE blame

(* Status 0: the request never arrived, the thread was dropped, or its      *)
(* answer is lost, and it goes on unseen if it has not ended.              *)
NotConnected(r) ==
  /\ \/ UNCHANGED thread
     \/ thread[r] = "writeHost" /\ thread' = [thread EXCEPT ![r] = "dropped"]
  /\ Success(r)
  /\ blame' = IF Settled(r) /\ ~Writing(r)' THEN {} ELSE blame \cup {"failed"}

(* /get_config/ knows server.py's address only.  Without an answer the      *)
(* callback raises before it sets the label.                               *)
Configured ==
  /\ config = "sent" /\ config' = "done"
  /\ \/ UNCHANGED <<label, blame>>
     \/ /\ label' = Default
        /\ blame' = IF LeadsTo(Default) THEN blame ELSE blame \cup {"config"}
  /\ UNCHANGED <<keyboard, connects, form, thread, session, table>>

(* CONNECT and NAMESPACE in a terminal, and other browsers, whom the server *)
(* gives the same session: each writes field by field.                      *)
ConnectElsewhere ==
  /\ \/ \E h \in Hosts : session' = [session EXCEPT !.host = h]
     \/ \E p \in Ports : session' = [session EXCEPT !.port = p]
     \/ \E n \in Namespaces : session' = [session EXCEPT !.ns = n]
  /\ blame' = blame \cup {"elsewhere"}
  /\ UNCHANGED <<keyboard, connects, form, thread, config, label, table>>

-----------------------------------------------------------------------------
(* Queries. *)

(* The play button, or a row of the table of tablets, which clears first.  *)
execute_query ==
  /\ view # Console /\ dialog = "hidden" /\ Len(queries) < MaxAsked
  /\ queries' = Append(queries, "sent")
  /\ result' \in {0, result}
  /\ hasty' = (hasty \/ \E i \in DOMAIN queries : queries[i] = "sent")
  /\ UNCHANGED <<keyboard, address>>

clear_results ==
  /\ view # Console /\ dialog = "hidden"
  /\ result' = 0
  /\ UNCHANGED <<keyboard, address, queries, hasty>>

\* Mutant: the rows that are there are not cleared.
FilledIfEmpty(i) == IF result = 0 THEN i ELSE result
(* The table is cleared and filled: it shows this answer alone. *)
Filled(i) == i

QuerySucceeds(i) ==
  /\ queries[i] = "sent"
  /\ queries' = [queries EXCEPT ![i] = "done"]
  /\ result' = Filled(i)
  /\ UNCHANGED <<keyboard, address, hasty>>

(* Status 500, for Thrift's exceptions: the table stays as it was. *)
QueryRefused(i) ==
  /\ queries[i] = "sent"
  /\ queries' = [queries EXCEPT ![i] = "refused"]
  /\ UNCHANGED <<keyboard, address, result, hasty>>

(* No answer, which is no error: the text is no JSON, but the callback      *)
(* clears the table before that makes it raise.                            *)
QueryDropped(i) ==
  /\ queries[i] = "sent"
  /\ queries' = [queries EXCEPT ![i] = "dropped"]
  /\ result' = 0
  /\ UNCHANGED <<keyboard, address, hasty>>

-----------------------------------------------------------------------------
(* webix.ready: the console with its first terminal, opened and unlocked.  *)
(* The session may lead anywhere: it outlives the page.                    *)
Init ==
  /\ view = Console /\ dialog = "hidden"
  /\ tabs = Terminals /\ shown = Terminals[1] /\ opened = {Terminals[1]}
  /\ keylock = FALSE /\ activeTerm = Terminals[1]
  /\ connects = [r \in Connects |-> "unused"]
  /\ form = [r \in Connects |-> None]
  /\ thread = [r \in Connects |-> "idle"]
  /\ config = "sent" /\ label = None
  /\ session \in Address
  /\ queries = <<>> /\ result = 0
  /\ blame = {} /\ hasty = FALSE

Keyboard ==
  \/ \E v \in Views : Menu(v)
  \/ \E t \in Tabs : TabClick(t)
  \/ \E i \in DOMAIN tabs : CloseTab(i)
  \/ form_change_server \/ Cancel

Connecting ==
  \/ \E r \in Connects :
       onChangeServer(r) \/ Handle(r) \/ Connected(r) \/ NotConnected(r)
  \/ Configured \/ ConnectElsewhere

Table ==
  \/ execute_query \/ clear_results
  \/ \E i \in DOMAIN queries : QuerySucceeds(i) \/ QueryRefused(i) \/ QueryDropped(i)

Next == Keyboard \/ Connecting \/ Table

Spec == Init /\ [][Next]_vars
-----------------------------------------------------------------------------
Threads == {"idle", "writeHost", "writePort", "writeNs", "respond", "dropped"}
\* What the dialog can be filled with.
Labels == [host : Hosts \cup {None}, port : Ports \cup {BadPort, None},
           ns : Namespaces \cup {None}]

(* Every variable keeps its type, and the tab shown is one that is there   *)
(* and was opened.                                                         *)
TypeOK ==
  /\ view \in Views /\ dialog \in {"open", "hidden"}
  /\ tabs \in Seq(Tabs) /\ tabs # <<>> /\ IsInjective(tabs)
  /\ shown \in ToSet(tabs) \cap opened /\ opened \subseteq Tabs
  /\ keylock \in BOOLEAN /\ activeTerm \in opened
  /\ connects \in [Connects -> {"unused", "sent", "done"}]
  /\ form \in [Connects -> Forms \cup {None}] /\ thread \in [Connects -> Threads]
  /\ config \in {"sent", "done"} /\ label \in Labels \cup {None}
  /\ session \in Address
  /\ queries \in Seq({"sent", "done", "refused", "dropped"}) /\ result \in 0 .. Len(queries)
  /\ blame \subseteq {"overlap", "failed", "config", "elsewhere"} /\ hasty \in BOOLEAN

(* Keys never go to a terminal that is on the page and not shown: they go  *)
(* to the one shown or to one whose tab was closed while it was shown      *)
(* (setFocus, open and removeOption).                                      *)
KeysGoToShown == activeTerm = shown \/ activeTerm \notin ToSet(tabs)

Taken == keylock = FALSE /\ (view # Console \/ dialog = "open")

(* The terminals take the keyboard from another view or from the dialog's  *)
(* fields only at the end of a connect, which does not look where the user *)
(* is, or by Cancel of a dialog that was opened in another view.           *)
KeyboardTakenOnlyBy ==
  [][~Taken /\ Taken' =>
       \/ \E r \in Connects : connects[r] # "done" /\ connects'[r] = "done"
       \/ dialog = "open" /\ dialog' = "hidden" /\ view # Console]_vars

(* When no connect is under way the label names the server and namespace   *)
(* that requests go to, unless since it last did two connects overlapped,  *)
(* one ended without an answer before the server had stored all of it (the *)
(* label takes what was typed all the same), the page was loaded with a    *)
(* session that led elsewhere, or the session was changed from elsewhere.  *)
(* An answer that is lost once all is stored does no harm.                 *)
LabelIsSession ==
  (\A r \in Connects : connects[r] # "sent") /\ label # None /\ ~LeadsTo(label)
    => blame # {}

(* The user who waits for each answer never sees an older query's result   *)
(* once the newest is answered, nor one that is dropped: the table is empty *)
(* then.  Only an error status leaves the older result.                    *)
ResultIsNewest ==
  LET n == Len(queries) IN
  ~hasty /\ n > 0 =>
    /\ queries[n] = "done" => result \in {0, n}
    /\ queries[n] = "dropped" => result = 0
=============================================================================
