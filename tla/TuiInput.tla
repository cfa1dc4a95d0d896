------------------------------- MODULE TuiInput -------------------------------
(***************************************************************************)
(* The input side of the terminal client: the keys (src/src/tui/event.rs), *)
(* what App::update does with them (src/src/tui/app.rs) over the composer, *)
(* the prompt history and the dialogs, and the effects that come back      *)
(* (execute_effect, src/src/tui/mod.rs).  A key goes to the dialog, if one *)
(* is open, and is handled with all its effects before the next one.       *)
(*                                                                         *)
(* The transcript and the streams are TuiChat's: here a request is only    *)
(* under way or not.  Of a typed command the name counts, of the records   *)
(* of the proxy the prompts in their history, and of the line a dialog     *)
(* edits whether it is empty and whether it holds an API key.              *)
(***************************************************************************)
EXTENDS Composer

CONSTANTS
    Slash,       \* the character that begins a command
    Pastes,      \* what the clipboard or the terminal may paste
    Prompts,     \* bound: the prompts that are sent
    Histories,   \* bound: the prompt histories of the proxy's sessions
    MaxText,     \* bound: the length of a typed text
    MaxHistory   \* bound: the length of the prompt history

Dialogs == {"info", "sessions", "models", "projects", "search", "key",
            "delete", "clear", "quit"}

\* prompt_history_from_messages leaves no two equal neighbours.
Distinct(h) == \A i \in 1..(Len(h) - 1) : h[i] # h[i + 1]

ASSUME TuiInputAssumption ==
    /\ Slash \in Chars \ ({Newline} \cup Wide)
    /\ Pastes \subseteq Seq(Chars) /\ Prompts \subseteq Seq(Chars)
    /\ \A p \in Prompts : ~Blank(p) /\ None # p
    /\ Histories \subseteq Seq(Prompts) /\ <<>> \in Histories
    /\ \A h \in Histories : Distinct(h)
    /\ None \notin Dialogs
    /\ MaxText \in Nat /\ MaxHistory \in Nat

VARIABLES
    composer,
    prompt_history,
    history_index,  \* prompt_history_index: the recalled prompt, or None
    draft,          \* prompt_history_draft: what was typed before recalling
    last_user,      \* the prompt that retry and edit use
    busy,           \* a request is under way
    unsaved,        \* persistence is Unsaved
    modal,          \* the open dialog, or None
    modal_input,    \* its line: "empty", "text", or "key" when a key is in it
    state,          \* "running", "quit", or "failed" when an effect's error ends it
    typed           \* history: the composer's text when recalling began

chatVars == <<last_user, busy, unsaved>>
navVars  == <<history_index, draft, typed>>
vars == <<composer, prompt_history, navVars, chatVars, modal, modal_input, state>>

LastOr(s) == IF s = <<>> THEN None ELSE s[Len(s)]

Init ==
    /\ composer = Empty
    /\ prompt_history \in Histories
    /\ history_index = None /\ draft = None /\ typed = None
    /\ last_user = LastOr(prompt_history) /\ busy = FALSE /\ unsaved = FALSE
    /\ modal = None /\ modal_input = "empty" /\ state = "running"

\* A key that goes to the chat, and one that goes to the dialog.
InChat   == state = "running" /\ modal = None
InDialog == state = "running" /\ modal # None

\* reset_prompt_history_navigation, which is all of leave_prompt_history.
Leave == history_index' = None /\ draft' = None /\ typed' = None

-----------------------------------------------------------------------------
(* Editing and moving *)

Field(c) ==
    /\ composer' = c /\ Leave
    /\ UNCHANGED <<prompt_history, chatVars, modal, modal_input, state>>

\* Typing a character or a newline; pasting.
Insert(s) ==
    /\ InChat /\ ~busy /\ Len(composer.text) + Len(s) <= MaxText
    /\ Field(InsertText(composer, s))

Erase ==
    /\ InChat /\ ~busy
    /\ Field(Backspace(composer)) \/ Field(Delete(composer))

\* The clipboard took the selection.
Cut ==
    /\ InChat /\ ~busy /\ Selected(composer)
    /\ Field(DeleteSelection(composer))

Move(select) ==
    /\ InChat
    /\ \/ Field(Left(composer, select)) \/ Field(Right(composer, select))
       \/ Field(Home(composer, select)) \/ Field(End(composer, select))

Select ==
    /\ InChat /\ ~busy
    /\ composer' = SelectAll(composer)
    /\ UNCHANGED <<prompt_history, navVars, chatVars, modal, modal_input, state>>

\* A recalled prompt, or the draft, takes the place of the text.
Show(t, i) == composer' = New(t) /\ history_index' = i

\* Mutant: what is shown becomes the draft at every step.
HistoryOlder_Draft ==
    /\ prompt_history # <<>> /\ history_index # 1
    /\ Show(prompt_history[IF history_index = None THEN Len(prompt_history) ELSE history_index - 1],
            IF history_index = None THEN Len(prompt_history) ELSE history_index - 1)
    /\ draft' = composer.text
    /\ typed' = IF history_index = None THEN composer.text ELSE typed

HistoryOlder ==
    /\ prompt_history # <<>> /\ history_index # 1
    /\ LET i == IF history_index = None THEN Len(prompt_history) ELSE history_index - 1 IN
       Show(prompt_history[i], i)
    /\ IF history_index = None THEN draft' = composer.text /\ typed' = composer.text
       ELSE UNCHANGED <<draft, typed>>

HistoryNewer ==
    /\ history_index # None
    /\ IF history_index < Len(prompt_history)
       THEN Show(prompt_history[history_index + 1], history_index + 1) /\ UNCHANGED <<draft, typed>>
       ELSE Show(draft, None) /\ draft' = None /\ typed' = None

\* Up and Down move in the text as long as they can.
UpOrDown(step, select) ==
    /\ InChat
    /\ \/ /\ CanMove(composer, step)
          /\ composer' = Vertical(composer, step, select) /\ UNCHANGED navVars
       \/ /\ ~CanMove(composer, step) /\ ~select
          /\ (step = -1 /\ HistoryOlder) \/ (step = 1 /\ HistoryNewer)
    /\ UNCHANGED <<prompt_history, chatVars, modal, modal_input, state>>

-----------------------------------------------------------------------------
(* Requests and sessions *)

\* Mutant: a prompt that was sent before is not remembered again.
Remember_Once(p) ==
    prompt_history' = IF \E i \in DOMAIN prompt_history : prompt_history[i] = p
                      THEN prompt_history ELSE Append(prompt_history, p)

Remember(p) ==
    prompt_history' = IF LastOr(prompt_history) = p THEN prompt_history
                      ELSE Append(prompt_history, p)

\* start: Action::StartRequest and Effect::Send.
Start(p) ==
    /\ p \in Prompts /\ Len(prompt_history) < MaxHistory
    /\ Remember(p) /\ last_user' = p /\ Leave
    /\ busy' = TRUE

IsCommand(t) ==
    \E i \in DOMAIN t : t[i] = Slash /\ \A j \in 1..(i - 1) : t[j] = Newline

Submit ==
    /\ InChat /\ ~busy /\ ~Blank(composer.text) /\ ~IsCommand(composer.text)
    /\ composer' = Empty
    /\ Start(composer.text)
    /\ UNCHANGED <<unsaved, modal, modal_input, state>>

Retry ==
    /\ ~busy /\ last_user # None
    /\ unsaved' = TRUE
    /\ Start(last_user)
    /\ UNCHANGED <<modal, modal_input, state>>

\* The recalled position is kept, if there is one.
EditLast ==
    /\ ~busy /\ last_user # None
    /\ composer' = New(last_user)
    /\ unsaved' = TRUE
    /\ UNCHANGED <<prompt_history, navVars, last_user, busy, modal, modal_input, state>>

\* The current request completes and its transcript is saved, or not; or it
\* fails or is cancelled.
Ends ==
    /\ state = "running" /\ busy
    /\ busy' = FALSE
    /\ unsaved' \in BOOLEAN
    /\ UNCHANGED <<composer, prompt_history, navVars, last_user, modal, modal_input, state>>

\* Action::SessionChanged
SessionChanged(h) ==
    /\ prompt_history' = h /\ last_user' = LastOr(h) /\ Leave
    /\ composer' = Empty /\ modal' = None /\ busy' = FALSE
    /\ UNCHANGED <<unsaved, modal_input, state>>

-----------------------------------------------------------------------------
(* Dialogs *)

\* A dialog that is set as it is, and Action::Open, which clears its line.
Set(d)  == modal' = d /\ UNCHANGED <<modal_input, state>>
Open(d) == modal' = d /\ modal_input' = "empty" /\ UNCHANGED state

Fail == state' = "failed" /\ modal' = None /\ UNCHANGED modal_input

\* Mutant: what would be lost is not looked at.
QuitRequested_AtOnce == state' = "quit" /\ UNCHANGED <<modal, modal_input>>

QuitRequested ==
    IF busy \/ unsaved THEN Set("quit") ELSE state' = "quit" /\ UNCHANGED <<modal, modal_input>>

\* CreateSession, SwitchSession and ClearHistory show the session they come to,
\* or an error; SelectModel closes the dialog, or shows an error.
ToSession  == \E h \in Histories : SessionChanged(h)
Refused    == Set("info") /\ UNCHANGED <<composer, prompt_history, navVars, chatVars>>
SelectModel == (Set(None) \/ Set("info")) /\ UNCHANGED <<composer, prompt_history, navVars, chatVars>>

\* terminal_change_project and DeleteSession: an error on the way to the next
\* session ends the program.
ToOther == ToSession \/ (Fail /\ UNCHANGED <<composer, prompt_history, navVars, chatVars>>)
DeleteSession == ToOther \/ Refused

\* App::command and its effect, in a chat whose composer is the field c.
\* Those that only notify, copy or rename are the last disjunct.
Command(c) ==
    \/ /\ \/ \E d \in {"info", "sessions", "models", "search", "delete", "clear"} : Set(d)
          \/ \E d \in {"projects", "key"} : Open(d)
          \/ QuitRequested
       /\ composer' = c /\ UNCHANGED <<prompt_history, navVars, chatVars>>
    \/ ToSession
    \/ Fail /\ composer' = c /\ UNCHANGED <<prompt_history, navVars, chatVars>>
    \/ Retry /\ composer' = c
    \/ EditLast
    \/ composer' = c /\ UNCHANGED <<prompt_history, navVars, chatVars, modal, modal_input, state>>

SubmitCommand ==
    /\ InChat /\ ~busy /\ IsCommand(composer.text)
    /\ Command(Empty)

\* The commands that have keys, which keep the composer.
Shortcut ==
    /\ InChat
    /\ \/ \E d \in {"info", "search"} :
             Open(d) /\ UNCHANGED <<composer, prompt_history, navVars, chatVars>>
       \/ /\ Open("projects") \/ Set("sessions") \/ Set("models") \/ Set("info") \/ QuitRequested
          /\ UNCHANGED <<composer, prompt_history, navVars, chatVars>>
       \/ ToSession
       \/ Retry /\ UNCHANGED composer
       \/ EditLast

\* Mutant: the line stays.
CloseModal_Keep ==
    /\ InDialog
    /\ Set(None)
    /\ UNCHANGED <<composer, prompt_history, navVars, chatVars>>

\* Action::CloseModal on Esc, which in a busy chat is Action::Cancel.
CloseModal ==
    /\ InDialog \/ (InChat /\ ~busy)
    /\ Open(None)
    /\ UNCHANGED <<composer, prompt_history, navVars, chatVars>>

\* Keys, and what the terminal pastes, go to the line of any dialog.
ModalInput ==
    /\ InDialog
    /\ modal_input' \in {modal_input, "empty"} \cup
                        {IF modal = "key" \/ modal_input = "key" THEN "key" ELSE "text"}
    /\ UNCHANGED <<composer, prompt_history, navVars, chatVars, modal, state>>

\* Confirmed on Enter in a confirmation.
Confirm ==
    /\ InDialog /\ modal \in {"delete", "clear", "quit"}
    /\ \/ modal = "delete" /\ DeleteSession
       \/ modal = "clear" /\ (SessionChanged(<<>>) \/ Refused)
       \/ /\ modal = "quit" /\ state' = "quit" /\ modal' = None
          /\ UNCHANGED <<composer, prompt_history, navVars, chatVars, modal_input>>

\* ModalSubmit on Enter elsewhere.
ModalSubmit ==
    /\ InDialog
    /\ \/ modal = "sessions" /\ (ToSession \/ Refused)
       \/ modal = "models" /\ SelectModel
       \/ modal = "projects" /\ ToOther
       \/ /\ modal = "search" /\ Open(None)
          /\ UNCHANGED <<composer, prompt_history, navVars, chatVars>>
       \/ /\ modal = "key" /\ modal_input # "empty"
          /\ (Open(None) \/ Open("info"))
          /\ UNCHANGED <<composer, prompt_history, navVars, chatVars>>

-----------------------------------------------------------------------------
Next ==
    \/ \E ch \in Chars : Insert(<<ch>>)
    \/ \E s \in Pastes : Insert(s)
    \/ Erase \/ Cut \/ Select
    \/ \E select \in BOOLEAN : Move(select) \/ UpOrDown(-1, select) \/ UpOrDown(1, select)
    \/ Submit \/ SubmitCommand \/ Shortcut \/ Ends
    \/ CloseModal \/ ModalInput \/ Confirm \/ ModalSubmit

Spec == Init /\ [][Next]_vars

-----------------------------------------------------------------------------
(* Properties *)

\* The cursor and the anchor are in the text, and the recalled position in the
\* prompt history: the code indexes with all three.
TypeOK ==
    /\ composer.text \in Seq(Chars)
    /\ composer.cursor \in 0..Len(composer.text)
    /\ composer.anchor \in 0..Len(composer.text) \cup {None}
    /\ composer.preferred \in 0..(Width - 1) \cup {None}
    /\ prompt_history \in Seq(Prompts)
    /\ history_index \in 1..Len(prompt_history) \cup {None}
    /\ IF history_index = None THEN draft = None /\ typed = None
       ELSE draft \in Seq(Chars) /\ typed \in Seq(Chars)
    /\ last_user \in Prompts \cup {None}
    /\ busy \in BOOLEAN /\ unsaved \in BOOLEAN
    /\ modal \in Dialogs \cup {None} /\ modal_input \in {"empty", "text", "key"}
    /\ state \in {"running", "quit", "failed"}

Row(c, i) == Positions(c.text)[i].row

\* Up and Down only stop, and so turn to the prompt history, on the first and
\* on the last row as the text is wrapped, and one takes the other back, over
\* shorter lines too, because the column is kept.
VerticalMoves == InChat => \A step \in {-1, 1} :
    IF CanMove(composer, step)
    THEN Vertical(Vertical(composer, step, FALSE), -step, FALSE).cursor = composer.cursor
    ELSE IF step = 1
    THEN \A i \in 0..Len(composer.text) : Row(composer, i) <= Row(composer, composer.cursor)
    ELSE Row(composer, composer.cursor) = 0

\* The prompt that retry and edit use is the one that Up recalls first, and no
\* two neighbours in the prompt history are equal.
HistoryEndsInLast ==
    /\ last_user = LastOr(prompt_history)
    /\ Distinct(prompt_history)

\* Coming back from the prompt history brings back what was typed before.
DraftComesBack ==
    [][(\E select \in BOOLEAN : UpOrDown(1, select)) /\ history_index # None /\ history_index' = None
          => composer'.text = typed]_vars

\* Whatever dialogs follow each other, an API key is only ever in the line of
\* the dialog that asks for it.
KeyStaysInDialog == modal_input = "key" => modal = "key"

\* With an answer on its way, or a transcript that is not saved, the program
\* quits only from its confirmation.
QuitConfirmed ==
    [][state = "running" /\ state' = "quit" /\ (busy \/ unsaved) => modal = "quit"]_vars
=============================================================================
