------------------------------ MODULE ClientUI ------------------------------
(* The event loop of the client (client/main.go, Update): which of the       *)
(* overlays a key reaches, the composer and what its lines become, the       *)
(* administrator's selection and prompts, and the editor's and the picker's  *)
(* results, which come back through a channel; and the room, which the       *)
(* client and the server each keep for themselves. It is composed with what  *)
(* the client keeps of its messages and with its settings.                   *)
EXTENDS ClientThreads, ClientSettings, SequencesExt

CONSTANTS Me,          \* m.cfg.Username
          Lists,       \* bound: the user lists the server sends
          Kits,        \* bound: which groups of inputs a behaviour has
          MaxQueue,    \* 10 in the code
          Rooms, General

VARIABLES kit,         \* the groups of inputs of this behaviour
          e2e,         \* m.useE2E
          open,        \* showHelp, showDBMenu, showCodeSnippet, showFilePicker
          pending,     \* a prompt waits for a plugin's name
          draft,       \* the kind of line in the composer
          users, selIdx, selUser,  \* selectedUserIndex + 1, selectedUser
          moved,       \* history: the list changed under the selection
          msgChan,     \* m.msgChan
          banner,
          wrote,       \* what the last step handed to the connection
          room,        \* m.currentChannel, the room on the screen
          seat,        \* the hub's room for this connection
          kept,        \* the user's row of user_channels
          unsure       \* history: of a change of room, on the screen or off it, the
                       \* server or its table has not heard

place == <<room, seat, kept, unsure>>
uiVars == <<kit, e2e, open, pending, draft, users, selIdx, selUser, moved, msgChan, banner, wrote, place>>
vars == <<threadVars, settingVars, uiVars>>

(* Lines: a word to be said, one that is too large, a command the server     *)
(* gets, one of those that ignore the result of the write, :join or :leave,  *)
(* a file.                                                                   *)
Lines == {"word", "big", "server", "edit", "join", "file"}
Overlays == {"help", "db"}
Modals == {"snippet", "picker"}

(* A list names nobody twice and nobody by the empty name.                   *)
ASSUME UIAssumption ==
    /\ MaxQueue \in Nat /\ None \notin Lines /\ General \in Rooms
    /\ \A us \in Lists : IsInjective(us) /\ us \in Seq(Range(us) \ {None})

-----------------------------------------------------------------------------
(* Who has the screen, the keys and the wheel.                               *)

FirstOf(order, default) ==
    LET at == SelectInSeq(order, LAMBDA w : w \in open) IN IF at = 0 THEN default ELSE order[at]

(* View: the menu is drawn over the help.                                    *)
Shown == FirstOf(<<"snippet", "picker", "db", "help">>, "chat")

(* The order of the cases of Update for a key, and of activeScrollViewport.  *)
Receiver == FirstOf(<<"snippet", "picker", "help", "db">>, "chat")

(* Update for the wheel, then activeScrollViewport.                          *)
Wheel == FirstOf(<<"picker", "snippet", "help", "db">>, "chat")

(* The two keys of Update that come before, or between, these cases.         *)
HelpKey == FirstOf(<<"db", "snippet">>, "help")
EscKey == IF Receiver \in Modals \/ pending = None THEN Receiver ELSE "prompt"

ChatHasKeys == Receiver = "chat"
Does(group) == group \in kit

(* A command is typed into an empty composer and entered.                    *)
Entering == ChatHasKeys /\ pending = None /\ draft = None

Silence == [what |-> None, to |-> None, room |-> None]

(* What the connection does with what it is handed: a broken one may take it.*)
(* What names no recipient goes to the hub's room.                           *)
Hand(what, to, error) ==
    \/ /\ link # "none" /\ banner' = "ok"
       /\ wrote' = [what |-> what, to |-> to, room |-> IF to = None THEN seat ELSE None]
    \/ link = "broken" /\ wrote' = Silence /\ banner' = error

Quietly == banner' = None /\ wrote' = Silence
sel == <<users, selIdx, selUser, moved>>
ui0 == <<kit, e2e, place>>

-----------------------------------------------------------------------------
(* Overlays, prompts and hotkeys.                                            *)

(* Ctrl+H closes the menu or the editor, and else shows or hides the help,   *)
(* under the picker too.                                                     *)
CtrlH ==
    /\ open' = IF HelpKey \in open THEN open \ {HelpKey} ELSE open \cup {HelpKey}
    /\ Quietly /\ UNCHANGED <<ui0, pending, draft, sel, msgChan>>

(* Mutant: the name of the selected user stays.                              *)
KeepName == selIdx' = 0 /\ selUser' = selUser /\ moved' = FALSE

NoSelection == selIdx' = 0 /\ selUser' = None /\ moved' = FALSE

(* Esc: a modal cancels itself; a prompt goes before what covers it.         *)
Esc ==
    /\ Quietly /\ UNCHANGED <<ui0, users, msgChan>>
    /\ \/ /\ EscKey \in Modals \cup {"help"} /\ open' = open \ {EscKey}
          /\ UNCHANGED <<pending, draft, sel>>
       \/ /\ EscKey = "prompt"
          /\ pending' = None /\ draft' = None /\ UNCHANGED <<open, sel>>
       \/ /\ EscKey \in {"db", "chat"} /\ open' = open \ {"db"}
          /\ NoSelection /\ UNCHANGED <<pending, draft>>

(* Mutant: the help does not keep the menu from opening.                     *)
CtrlDOverHelp ==
    /\ Receiver \in {"chat", "help"} /\ open' = open \cup {"db"}
    /\ Quietly /\ UNCHANGED <<ui0, pending, draft, sel, msgChan>>

(* Ctrl+D; with the menu open the key, like the digits, is swallowed.        *)
CtrlD == /\ ChatHasKeys /\ open' = {"db"}
         /\ Quietly /\ UNCHANGED <<ui0, pending, draft, sel, msgChan>>

(* promptForPluginName: the composer keeps what it has.                      *)
Prompt == /\ ChatHasKeys /\ pending' = "plugin" /\ banner' = "ok" /\ wrote' = Silence
          /\ UNCHANGED <<ui0, open, draft, sel, msgChan>>

(* executePluginCommand                                                      *)
PluginKey == /\ ChatHasKeys
             /\ IF link = "none" THEN UNCHANGED banner /\ wrote' = Silence
                ELSE Hand("admin", None, "error")
             /\ UNCHANGED <<ui0, open, pending, draft, sel, msgChan>>

(* :code and Alt+C, :sendfile and Alt+F                                      *)
OpenModal(w) == /\ ChatHasKeys /\ open' = {w} /\ draft' = None /\ pending' = pending
                /\ Quietly /\ UNCHANGED <<ui0, sel, msgChan>>

(* The editor or the picker hands over its result and closes; a full channel *)
(* drops it.                                                                 *)
Choose ==
    /\ Receiver \in Modals /\ open' = open \ {Receiver}
    /\ msgChan' = IF Len(msgChan) < MaxQueue THEN Append(msgChan, Receiver) ELSE msgChan
    /\ Quietly /\ UNCHANGED <<ui0, pending, draft, sel>>

(* codeSnippetMsg goes to the recipient of now, fileSendMsg to the channel;  *)
(* either closes whatever editor or picker is open by then. A snippet too    *)
(* large leaves it open; a file is read only now.                            *)
Handle ==
    LET w == Head(msgChan) IN
    /\ msgChan # <<>> /\ msgChan' = Tail(msgChan)
    /\ \/ link = "none" /\ open' = open \ {w} /\ UNCHANGED banner /\ wrote' = Silence
       \/ link # "none" /\ open' = open \ {w}
          /\ Hand(w, IF w = "snippet" THEN recipient ELSE None, "error")
       \/ link # "none" /\ open' = (IF w = "picker" THEN open \ {w} ELSE open)
          /\ banner' = "error" /\ wrote' = Silence
    /\ UNCHANGED <<ui0, pending, draft, sel>>

-----------------------------------------------------------------------------
(* The administrator's selection.                                            *)

UserList(us) ==
    /\ link # "none" /\ us # users /\ users' = us
    /\ moved' = (selIdx # 0)
    /\ Quietly /\ UNCHANGED <<ui0, open, pending, draft, selIdx, selUser, msgChan>>

(* Ctrl+U: the next user of the list who is someone else.                    *)
Select ==
    LET n == Len(users)
        turn(i) == ((selIdx + i - 1) % n) + 1
        found == {i \in 1..n : users[turn(i)] # Me}
    IN /\ ChatHasKeys /\ n > 0
       /\ IF found = {} THEN NoSelection
          ELSE selIdx' = turn(Min(found)) /\ selUser' = users[turn(Min(found))] /\ moved' = FALSE
       /\ banner' = "ok" /\ wrote' = Silence
       /\ UNCHANGED <<ui0, open, pending, draft, users, msgChan>>

(* executeAdminAction for ban, kick and force-disconnect                     *)
BanSelected ==
    /\ ChatHasKeys /\ selUser # None
    /\ IF link = "none" THEN UNCHANGED <<banner, sel>> /\ wrote' = Silence
       ELSE /\ Hand("ban", selUser, "error")
            /\ IF wrote' # Silence THEN NoSelection /\ UNCHANGED users ELSE UNCHANGED sel
    /\ UNCHANGED <<ui0, open, pending, draft, msgChan>>

-----------------------------------------------------------------------------
(* The composer.                                                             *)

Type(line) == /\ ChatHasKeys /\ draft = None /\ draft' = line
              /\ wrote' = Silence
              /\ UNCHANGED <<ui0, open, pending, sel, msgChan, banner>>

(* Ctrl+X                                                                    *)
Cut == /\ ChatHasKeys /\ draft # None /\ draft' = None
       /\ banner' = "cut" /\ wrote' = Silence
       /\ UNCHANGED <<ui0, open, pending, sel, msgChan>>

(* Enter with a prompt: the composer's line is the name.                     *)
EnterName ==
    /\ pending # None /\ pending' = None /\ draft' = None
    /\ IF draft = None THEN banner' = "error" /\ wrote' = Silence
       ELSE IF link = "none" THEN UNCHANGED banner /\ wrote' = Silence
       ELSE Hand("admin", None, "error")

(* Mutant: the line is dropped as if it had been sent, whatever the write did.*)
SayDropped ==
    /\ draft' = None
    /\ IF link = "none" THEN banner' = banner /\ wrote' = Silence
       ELSE Hand("word", recipient, None)

(* A word: to the thread, or to the room. A room's line in the clear stays   *)
(* in the composer when the write fails, any other is gone. Without a        *)
(* connection all of them are gone, without a word.                          *)
Say ==
    /\ IF link = "none" THEN banner' = banner /\ wrote' = Silence
       ELSE Hand("word", recipient, "error")
    /\ draft' = IF link # "none" /\ wrote' = Silence /\ recipient = None /\ ~e2e THEN draft ELSE None

(* A line above the limit stays; without a connection it is gone.            *)
SayTooMuch ==
    /\ wrote' = Silence
    /\ IF link = "none" THEN draft' = None /\ banner' = banner
       ELSE draft' = draft /\ banner' = "error"

(* A command of the server, which stays when the write fails.                *)
SayCommand ==
    IF link = "none" THEN draft' = None /\ banner' = banner /\ wrote' = Silence
    ELSE Hand("admin", None, "error") /\ draft' = IF wrote' = Silence THEN draft ELSE None

(* :edit, :delete, :react, :pin, :search, :channels: the write's result is   *)
(* ignored.                                                                  *)
SayUnchecked ==
    /\ draft' = None
    /\ IF link = "none" THEN banner' = banner /\ wrote' = Silence ELSE Hand("edit", None, banner)

(* Mutant: the server does not store the room.                               *)
SitUnkept(r) == seat' = r /\ kept' = kept /\ unsure' = FALSE

(* The server moves the connection, and stores the room unless the database  *)
(* fails (handleInboundJoinChannel, PersistUserChannel).                     *)
Sit(r) ==
    /\ seat' = r
    /\ \/ kept' = r /\ unsure' = FALSE
       \/ kept' = kept /\ unsure' = TRUE

(* The command is lost with the connection, or dropped by the rate limit.    *)
Unheard == UNCHANGED <<seat, kept>> /\ unsure' = TRUE

(* :join changes the room on the screen, whatever becomes of the command.    *)
Join(r) ==
    /\ room' = r
    /\ (link = "up" /\ Sit(r)) \/ Unheard

(* :leave, likewise; handleInboundLeaveChannel does nothing in general.      *)
LeaveRoom ==
    /\ room' = General
    /\ IF seat = General THEN UNCHANGED <<seat, kept, unsure>>
       ELSE (link = "up" /\ Sit(General)) \/ Unheard

(* Both write to the connection they do not have (StartAgain), and ignore    *)
(* the result.                                                               *)
SayRoom ==
    /\ link # "none" /\ draft' = None
    /\ Hand("edit", None, banner)
    /\ LeaveRoom \/ \E r \in Rooms : Join(r)

(* :sendfile with a path; the file goes to the channel.                      *)
SayFile ==
    /\ draft' = None
    /\ \/ banner' = "error" /\ wrote' = Silence
       \/ link # "none" /\ Hand("picker", None, "error")

EnterLine ==
    /\ pending = None /\ pending' = None
    /\ \/ draft = "word" /\ Say /\ UNCHANGED place
       \/ draft = "big" /\ SayTooMuch /\ UNCHANGED place
       \/ draft = "server" /\ SayCommand /\ UNCHANGED place
       \/ draft = "edit" /\ SayUnchecked /\ UNCHANGED place
       \/ draft = "join" /\ SayRoom
       \/ draft = "file" /\ SayFile /\ UNCHANGED place

Enter ==
    /\ ChatHasKeys
    /\ (EnterName /\ UNCHANGED place) \/ EnterLine
    /\ UNCHANGED <<kit, e2e, open, sel, msgChan>>

-----------------------------------------------------------------------------
(* Steps of the other modules, under the event loop.                         *)

Aside == Quietly /\ UNCHANGED <<kit, e2e, open, pending, draft, sel, msgChan>>
Still == UNCHANGED <<threadVars, settingVars>>

(* :dm <name> <text>: the text is handed over, then the thread is entered,   *)
(* whether the write succeeded or not.                                       *)
DmSay(n) ==
    /\ Entering /\ Go(n) /\ Jump /\ UNCHANGED <<netVars, transcript>>
    /\ IF link = "none" THEN UNCHANGED banner /\ wrote' = Silence ELSE Hand("word", n, "error")
    /\ UNCHANGED <<settingVars, ui0, open, pending, draft, sel, msgChan>>

(* Init replaces the channel before it dials again.                          *)
Redial == /\ link = "none" /\ msgChan # <<>> /\ msgChan' = <<>>
          /\ Still /\ Quietly /\ UNCHANGED <<ui0, open, pending, draft, sel>>

(* The hub seats a new connection in general, and the handshake moves it to  *)
(* the room of the user's row, if it can read it and the hub is not late     *)
(* (LoadUserChannel). The client is not told.                                *)
TakeSeat ==
    /\ \/ seat' = kept /\ unsure' = unsure
       \/ seat' = General /\ unsure' = (unsure \/ kept # General)
    /\ UNCHANGED <<room, kept>>

(* The program is started again, in general, however it ended; :join and     *)
(* :leave without a connection end it by a panic.                            *)
StartAgain(how) ==
    /\ Restart /\ StartSettings(how)
    /\ open' = {} /\ pending' = None /\ draft' = None
    /\ users' = <<Me>> /\ NoSelection
    /\ room' = General /\ unsure' = (unsure \/ kept # General) /\ UNCHANGED <<seat, kept>>
    /\ msgChan' = <<>> /\ Quietly /\ UNCHANGED <<kit, e2e>>

InitUI ==
    /\ InitThreads /\ InitSettings
    /\ kit \in Kits /\ e2e \in BOOLEAN
    /\ (Does("say") \/ ~e2e) /\ (Does("sound") \/ supported)
    /\ open = {} /\ pending = None /\ draft = None
    /\ users = <<Me>> /\ selIdx = 0 /\ selUser = None /\ moved = FALSE
    /\ msgChan = <<>> /\ banner = None /\ wrote = Silence
    /\ room = General /\ seat = General /\ kept = General /\ unsure = FALSE

NetStep ==
    \/ \E m \in Messages : Does(IF m.with = None THEN "rooms" ELSE "threads") /\ Post(m)
    \/ Break \/ Lost \/ Notice
    \/ \E i \in Arriving : Receive(i)

ThreadStep ==
    \/ Does("dm") /\ Entering /\ (DmOff \/ \E n \in Names : Dm(n))
    \/ Does("hide") /\ Entering /\ \E n \in Names : Hide(n)
    \/ Does("clear") /\ ChatHasKeys /\ Clear
    \/ Does("scroll") /\ (Resize \/ Flush)
    \/ Does("scroll") /\ Wheel = "chat" /\ (ScrollUp \/ ScrollDown)

KeyStep ==
    \/ Does("keys") /\ (CtrlH \/ Esc \/ CtrlD \/ Prompt)
    \/ Does("keys") /\ (\E w \in Modals : OpenModal(w) \/ Choose \/ Handle)
    \/ Does("admin") /\ (PluginKey \/ Select \/ BanSelected \/ \E us \in Lists : UserList(us))
    \/ Does("say") /\ (Cut \/ Enter \/ \E line \in Lines \ {"join"} : Type(line))
    \/ Does("join") /\ Type("join")

CommandStep ==
    \/ Does("sound") /\ Entering /\ SoundNext
    \/ Does("look") /\ Entering /\ (LookNext \/ ToggleMention)

Next ==
    \/ (NetStep \/ ThreadStep) /\ UNCHANGED <<settingVars, place>> /\ Aside
    \/ WsConnected /\ TakeSeat /\ UNCHANGED settingVars /\ Aside
    \/ KeyStep /\ Still
    \/ CommandStep /\ UNCHANGED <<threadVars, place>> /\ Aside
    \/ Does("dm") /\ Does("say") /\ \E n \in Names : DmSay(n)
    \/ Redial
    \/ \E how \in IF Does("sound") \/ Does("look") THEN Starts ELSE {Flags} : StartAgain(how)

Spec == InitUI /\ [][Next]_vars

-----------------------------------------------------------------------------
(* Properties.                                                               *)

(* What is on the screen is what an input acts on, whatever opened over or   *)
(* closed under it: the keys and the wheel reach the overlay that is shown,  *)
(* a line goes to the thread that is shown, and an administrator's key to    *)
(* the user who is marked in the list. Where a new list arrived under the    *)
(* mark the code keeps the name and marks someone else. Two keys do not act  *)
(* on what is shown, and only so: Ctrl+H over the picker turns the help      *)
(* under it on and off, and Esc cancels a prompt before it closes the help   *)
(* or the menu that covers it.                                               *)
ActsOnWhatIsShown ==
    /\ Receiver = Shown /\ Wheel = Shown
    /\ HelpKey # Shown => HelpKey = "help" /\ Shown \in {"chat", "picker"}
    /\ EscKey # Shown => pending # None /\ Shown \notin Modals
    /\ recipient = thread
    /\ (selIdx = 0) = (selUser = None)
    /\ selUser # None => selUser # Me /\ (~moved => users[selIdx] = selUser)

(* A word the user wrote leaves the composer of a connected client only to   *)
(* the thread on the screen, or with a complaint, or because the user cut    *)
(* it, opened the editor or the picker, or was asked for a name; and no      *)
(* other word is sent. A word for the room goes to the room on the screen,   *)
(* unless the server or its table has missed a change of it: the client      *)
(* never learns of that, nor, when it is started again, of the room it is    *)
(* put back in. Without a connection the code drops the word silently.       *)
Said ==
    /\ draft = "word" /\ draft' # "word" /\ link' # "none" =>
        \/ wrote'.what = "word" /\ wrote'.to = thread
        \/ banner' \in {"error", "cut"}
        \/ open' # open \/ pending # None
    /\ wrote'.what = "word" =>
        /\ ChatHasKeys /\ wrote'.to = thread'
        /\ thread' = None /\ ~unsure => wrote'.room = room'

SaidWhereShown == [][Said]_vars
=============================================================================
