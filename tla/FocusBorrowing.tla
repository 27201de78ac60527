--------------------------- MODULE FocusBorrowing ---------------------------
(***************************************************************************)
(* The guard's fallback path for input (native/input_transaction.hpp,      *)
(* pointer_gesture.hpp, text_transaction.hpp): for the length of one       *)
(* request the human's seat is given to the target surface, and then given *)
(* back.                                                                   *)
(*                                                                         *)
(* The request runs to completion on the compositor's event loop, so the   *)
(* human acts only between transactions.  What makes it hard is that any   *)
(* call into the compositor may throw, before or after its effect, and     *)
(* that a focus or a device may be refused without a word.  A transaction  *)
(* is a script of compositor calls for each of its phases.                 *)
(***************************************************************************)
EXTENDS Naturals, Sequences

CONSTANTS
    Surfaces,    \* surfaces, each of a client of its own
    Keyboards,   \* keyboard resources of a client: 1..Keyboards
    MaxChars,    \* characters of a text request (48 in the code)
    MaxClicks,   \* clicks of a click request (3 in the code)
    None         \* no surface

ASSUME BorrowingAssumption ==
    /\ None \notin Surfaces
    /\ {Keyboards, MaxChars, MaxClicks} \subseteq Nat

VARIABLES
    \* What the compositor and the clients know.
    seat,           \* the native seat's devices and focused surfaces
    mods,           \* whose modifiers the focused surface was last told
    keymap,         \* keyboard resource -> the map it was last sent
    pressed,        \* <<surface, "key" or "button">> that is down for the client
    held,           \* those of them that the human holds down
    \* The transaction.
    phase, todo,    \* the script that runs, and its calls to come
    tx, saved,      \* the request, and what the constructor saved
    borrowed,       \* keyboardBorrowed, pointerBorrowed
    holding,        \* heldKey, heldButton, and the gesture's own held
    textResources,  \* resources that may have been sent the text map
    completed,      \* characters reported as done
    failed,         \* an exception is on its way to the caller
    inputFaulted,   \* static: a restoration went wrong
    \* History.
    typed,          \* key presses that reached a client in this transaction
    reply           \* how the last transaction ended

worldVars == <<seat, mods, keymap, pressed, held>>
localVars == <<tx, saved, borrowed, textResources, completed>>
txVars == <<phase, todo, localVars, holding, failed, inputFaulted>>
vars == <<worldVars, txVars, typed, reply>>
-----------------------------------------------------------------------------
Devices == {"human", "agent"}
Focuses == Surfaces \cup {None}
Seats == [keyboard : Devices, mouse : Devices, kbFocus : Focuses, ptrFocus : Focuses]
Resources == Surfaces \X (1..Keyboards)
Pressable == Surfaces \X {"key", "button"}
Kinds == {"key", "text", "move", "click", "drag", "scroll"}

(* mods: the gesture borrows the keyboard for modifiers; size: characters, *)
(* clicks, or further waypoints of the request.                            *)
Requests == [kind : Kinds, target : Focuses, mods : BOOLEAN, size : Nat]
IsPointer(q) == q.kind \notin {"key", "text"}

(* The guard's limits; a key request has its modifiers in the key call.    *)
Usable(q) ==
    /\ q.size \in 1..(CASE q.kind = "text" -> MaxChars
                        [] q.kind \in {"click", "drag"} -> MaxClicks
                        [] OTHER -> 1)
    /\ q.mods => IsPointer(q)

(* A call, or an assignment to a local.  try numbers the try block it is   *)
(* in, which an exception leaves; block 0 is the outermost.                *)
Call(op, arg, try) == [op |-> op, arg |-> arg, try |-> try]
Do(op, arg) == Call(op, arg, 0)
Set(field, value) == Do("set", [field |-> field, value |-> value])
Map(i, map, try) == Call("keymap", [resource |-> <<tx.target, i>>, map |-> map], try)

Repeat(n, script) ==
    [i \in 1..(n * Len(script)) |-> script[((i - 1) % Len(script)) + 1]]
Optional(cond, script) == IF cond THEN script ELSE <<>>

(* borrowKeyboard, installTargetKeymap and borrowPointer. *)
BorrowScript ==
    Optional(~IsPointer(tx) \/ tx.mods,
             <<Do("local", "keyboard"), Set("kbFocus", None), Set("keyboard", "agent"),
               Set("kbFocus", tx.target), Do("check", "keyboard")>>)
    \o Optional(tx.kind = "text",
                <<Do("check", "text")>> \o [i \in 1..Keyboards |-> Map(i, "text", 0)])
    \o Optional(IsPointer(tx),
                <<Do("local", "pointer"), Set("mouse", "agent"),
                  Set("ptrFocus", tx.target), Do("check", "pointer")>>)

(* InputTransaction::key, motion and button. *)
KeyScript == <<Do("mods", "agent"), Do("key", "down"), Do("key", "up"), Do("mods", "agent")>>
MotionScript == <<Do("event", "motion"), Do("event", "frame")>>
PressScript == <<Do("button", "down"), Do("event", "frame")>>
ReleaseScript == <<Do("button", "up"), Do("event", "frame"), Do("local", "released")>>

(* The try block of pointerGesture. *)
GestureScript ==
    Optional(tx.mods, <<Do("mods", "agent")>>)
    \o MotionScript
    \o Optional(tx.kind = "click", Repeat(tx.size, PressScript \o ReleaseScript))
    \o Optional(tx.kind = "drag", PressScript \o Repeat(tx.size, MotionScript) \o ReleaseScript)
    \o Optional(tx.kind = "scroll", <<Do("event", "axis"), Do("event", "frame")>>)
    \o Optional(tx.mods, <<Do("mods", "agent")>>)

(* Faulty: a character counts as soon as its key is due. *)
BadActScript ==
    IF IsPointer(tx) THEN GestureScript
    ELSE IF tx.kind = "key" THEN KeyScript
    ELSE Repeat(tx.size, <<Do("local", "count")>> \o KeyScript)

(* What the request is for. *)
ActScript ==
    IF IsPointer(tx) THEN GestureScript
    ELSE IF tx.kind = "key" THEN KeyScript
    ELSE Repeat(tx.size, KeyScript \o <<Do("local", "count")>>)

(* The catch block of pointerGesture. *)
CleanupScript ==
    Optional("gesture" \in holding, <<Call("button", "up", 1), Call("event", "frame", 1)>>)
    \o Optional(tx.mods, <<Call("mods", "agent", 2)>>)

(* Faulty: the map is left to the change of the keyboard. *)
BadRestoreMaps == <<>>

(* The clients that were sent the text map get the old one back.           *)
RestoreMaps ==
    Optional(textResources # {}, [i \in 1..Keyboards |-> Map(i, saved.keyboard, i)])

(* restore(). *)
RestoreScript ==
    Optional("keyboard" \in borrowed,
             Optional("key" \in holding /\ seat.kbFocus = tx.target,
                      <<Call("key", "up", Keyboards + 1)>>)
             \o RestoreMaps
             \o <<Set("kbFocus", None), Set("keyboard", saved.keyboard),
                  Set("kbFocus", saved.kbFocus)>>
             \o Optional(saved.kbFocus # None, <<Do("mods", "human")>>))
    \o Optional("pointer" \in borrowed,
             Optional("button" \in holding /\ seat.ptrFocus = tx.target,
                      <<Do("button", "up")>>)
             \o <<Do("event", "frame"), Set("ptrFocus", saved.ptrFocus)>>
             \o MotionScript
             \o <<Set("mouse", saved.mouse)>>)
    \o <<Do("verify", None)>>
-----------------------------------------------------------------------------
(* The calls.                                                              *)

Calling(op) == todo # <<>> /\ Head(todo).op = op
Arg == Head(todo).arg

(* Faulty: an exception in a cleanup is swallowed. *)
BadFault(threw) == inputFaulted

(* While cleaning up or restoring, an exception is a fault. *)
Fault(threw) == inputFaulted \/ (threw /\ phase \in {"cleanup", "restore"})

(* An exception skips what is left of its try block, the first n calls.    *)
LeaveBlock ==
    \E n \in 1..Len(todo) :
        /\ \A i \in 1..n : todo[i].try = Head(todo).try
        /\ n < Len(todo) => todo[n + 1].try # Head(todo).try
        /\ todo' = SubSeq(todo, n + 1, Len(todo))

(* How a call returns: to what follows it, or by leaving the try block.    *)
After(threw) ==
    /\ todo # <<>>
    /\ IF threw THEN LeaveBlock ELSE todo' = Tail(todo)
    /\ failed' = (failed \/ (threw /\ phase \in {"borrow", "act"}))
    /\ inputFaulted' = Fault(threw)
    /\ UNCHANGED phase

(* setKeyboard, setMouse, setKeyboardFocus, setPointerFocus: done, or      *)
(* refused, with or without an exception.  A change of the keyboard sends  *)
(* its map to every client; entering a surface may tell it any modifiers.  *)
SetSeat ==
    /\ Calling("set")
    /\ \E threw, done \in BOOLEAN :
          /\ After(threw)
          /\ seat' = IF done THEN [seat EXCEPT ![Arg.field] = Arg.value] ELSE seat
    /\ mods' = IF seat'.kbFocus = seat.kbFocus THEN mods ELSE "unknown"
    /\ keymap' = IF seat'.keyboard = seat.keyboard THEN keymap
                 ELSE [r \in Resources |-> seat'.keyboard]
    /\ UNCHANGED <<pressed, held, localVars, holding, typed, reply>>

(* What borrowing and installTargetKeymap check, which notes the resources *)
(* before the first map is sent.  The client may also have no device.      *)
Check ==
    /\ Calling("check")
    /\ \E threw \in BOOLEAN :
          /\ (IF Arg = "pointer" THEN seat.ptrFocus ELSE seat.kbFocus) # tx.target => threw
          /\ After(threw)
          /\ textResources' = IF threw \/ Arg # "text" THEN textResources
                              ELSE {tx.target} \X (1..Keyboards)
    /\ UNCHANGED <<worldVars, tx, saved, borrowed, completed, holding, typed, reply>>

(* sendKeymap, sendKeyboardMods, sendKeyboardKey, sendPointerButton, and   *)
(* the motion, axis and frame events, which leave nothing behind.  heldKey *)
(* and heldButton are set before the press and reset after the release;    *)
(* restore() does not look at them again.                                  *)
SendKeymap(threw, done) ==
    /\ Calling("keymap")
    /\ keymap' = IF done THEN [keymap EXCEPT ![Arg.resource] = Arg.map] ELSE keymap
    /\ UNCHANGED <<mods, pressed, holding, typed>>

SendMods(threw, done) ==
    /\ Calling("mods")
    /\ mods' = IF done THEN Arg ELSE mods
    /\ UNCHANGED <<keymap, pressed, holding, typed>>

SendPress(k, focus, threw, done) ==
    /\ Calling(k)
    /\ pressed' = IF ~done THEN pressed
                  ELSE IF Arg = "down" THEN pressed \cup ({<<focus, k>>} \cap Pressable)
                  ELSE pressed \ {<<focus, k>>}
    /\ typed' = IF done /\ k = "key" /\ Arg = "down" THEN typed + 1 ELSE typed
    /\ holding' = IF Arg = "down" THEN holding \cup (IF k = "key" THEN {k} ELSE {k, "gesture"})
                  ELSE IF threw THEN holding ELSE holding \ {k}
    /\ UNCHANGED <<keymap, mods>>

SendEvent(threw, done) ==
    /\ Calling("event")
    /\ UNCHANGED <<keymap, mods, pressed, holding, typed>>

Send ==
    /\ \E threw, done \in BOOLEAN :
          /\ threw \/ done
          /\ After(threw)
          /\ \/ SendKeymap(threw, done)
             \/ SendMods(threw, done)
             \/ SendPress("key", seat.kbFocus, threw, done)
             \/ SendPress("button", seat.ptrFocus, threw, done)
             \/ SendEvent(threw, done)
    /\ UNCHANGED <<seat, held, localVars, reply>>

(* keyboardBorrowed or pointerBorrowed, ++completed, held = false. *)
SetLocal ==
    /\ Calling("local")
    /\ After(FALSE)
    /\ borrowed' = borrowed \cup ({Arg} \cap {"keyboard", "pointer"})
    /\ completed' = IF Arg = "count" THEN completed + 1 ELSE completed
    /\ holding' = IF Arg = "released" THEN holding \ {"gesture"} ELSE holding
    /\ UNCHANGED <<worldVars, tx, saved, textResources, typed, reply>>

(* The end of restore(): is the seat as it was?  The cursor, which is also *)
(* compared, is moved by none of the calls.                                *)
Verify ==
    /\ Calling("verify")
    /\ todo' = Tail(todo)
    /\ inputFaulted' = (inputFaulted \/ seat # saved)
    /\ UNCHANGED <<worldVars, phase, failed, localVars, holding, typed, reply>>
-----------------------------------------------------------------------------
(* From phase to phase.                                                    *)

Init ==
    /\ seat = [keyboard |-> "human", mouse |-> "human", kbFocus |-> None, ptrFocus |-> None]
    /\ mods = "human"
    /\ keymap = [r \in Resources |-> "human"]
    /\ pressed = {} /\ held = {}
    /\ phase = "idle" /\ todo = <<>>
    /\ tx = [kind |-> "key", target |-> None, mods |-> FALSE, size |-> 1]
    /\ saved = seat
    /\ borrowed = {} /\ holding = {} /\ textResources = {}
    /\ completed = 0 /\ failed = FALSE /\ inputFaulted = FALSE
    /\ typed = 0 /\ reply = "none"

(* Faulty: nobody looks at the human's keys and buttons. *)
NoIdleInput == ~inputFaulted

(* requireIdleInput.  A request it refuses has touched nothing. *)
IdleInput == ~inputFaulted /\ held = {}

(* The constructor. *)
Begin(q) ==
    /\ phase = "idle" /\ Usable(q)
    /\ IdleInput
    /\ phase' = "begun"
    /\ tx' = q /\ saved' = seat
    /\ borrowed' = {} /\ holding' = {} /\ textResources' = {}
    /\ completed' = 0 /\ failed' = FALSE
    /\ typed' = 0 /\ reply' = "none"
    /\ UNCHANGED <<worldVars, todo, inputFaulted>>

GoOn(from, to, script) ==
    /\ phase = from /\ todo = <<>>
    /\ phase' = to /\ todo' = script
    /\ UNCHANGED <<worldVars, localVars, holding, failed, inputFaulted, typed, reply>>

(* An exception in a gesture is caught for its clean-up first; then, or    *)
(* without an exception, comes restore(), by finish or by the destructor.  *)
NextPhase ==
    \/ GoOn("begun", "borrow", BorrowScript)
    \/ ~failed /\ GoOn("borrow", "act", ActScript)
    \/ failed /\ GoOn("borrow", "restore", RestoreScript)
    \/ failed /\ IsPointer(tx) /\ GoOn("act", "cleanup", CleanupScript)
    \/ (failed => ~IsPointer(tx)) /\ GoOn("act", "restore", RestoreScript)
    \/ GoOn("cleanup", "restore", RestoreScript)

(* finish() throws if there was a fault. *)
Return ==
    /\ phase = "restore" /\ todo = <<>>
    /\ phase' = "idle"
    /\ reply' = IF failed \/ inputFaulted THEN "error" ELSE "ok"
    /\ UNCHANGED <<worldVars, todo, localVars, holding, failed, inputFaulted, typed>>
-----------------------------------------------------------------------------
(* The human acts between transactions: looks elsewhere or takes another   *)
(* device (the agent's virtual keyboard, which never types by itself, may  *)
(* also be the active one), and presses and releases keys and buttons.     *)

HumanMoves(s) ==
    /\ phase = "idle" /\ held = {}
    /\ seat' = s
    /\ mods' = "human"
    /\ keymap' = [r \in Resources |-> s.keyboard]
    /\ UNCHANGED <<pressed, held, txVars, typed, reply>>

HumanPresses(h) ==
    /\ phase = "idle" /\ h \in {<<seat.kbFocus, "key">>, <<seat.ptrFocus, "button">>}
    /\ pressed' = pressed \cup {h}
    /\ held' = held \cup {h}
    /\ UNCHANGED <<seat, mods, keymap, txVars, typed, reply>>

HumanReleases(h) ==
    /\ phase = "idle" /\ h \in held
    /\ pressed' = pressed \ {h}
    /\ held' = held \ {h}
    /\ UNCHANGED <<seat, mods, keymap, txVars, typed, reply>>

Transaction == SetSeat \/ Check \/ Send \/ SetLocal \/ Verify \/ NextPhase \/ Return

Next ==
    \/ \E k \in Kinds, s \in Surfaces, m \in BOOLEAN, n \in 1..(MaxChars + MaxClicks) :
          Begin([kind |-> k, target |-> s, mods |-> m, size |-> n])
    \/ Transaction
    \/ \E s \in Seats : HumanMoves(s)
    \/ \E h \in Pressable : HumanPresses(h) \/ HumanReleases(h)

Spec == Init /\ [][Next]_vars
-----------------------------------------------------------------------------
TypeOK ==
    /\ seat \in Seats
    /\ mods \in {"human", "agent", "unknown"}
    /\ keymap \in [Resources -> Devices \cup {"text"}]
    /\ held \subseteq pressed /\ pressed \subseteq Pressable
    /\ phase \in {"idle", "begun", "borrow", "act", "cleanup", "restore"}
    /\ tx \in Requests /\ saved \in Seats
    /\ borrowed \subseteq {"keyboard", "pointer"}
    /\ holding \subseteq {"key", "button", "gesture"}
    /\ textResources \subseteq Resources
    /\ completed \in 0..MaxChars /\ typed \in 0..(MaxChars + 1)
    /\ failed \in BOOLEAN /\ inputFaulted \in BOOLEAN
    /\ reply \in {"none", "ok", "error"}

(* Whatever call failed, and after whichever effects: when the compositor  *)
(* returns to its event loop the human has devices, focus, modifiers and   *)
(* key maps as before and nothing of the agent's stays pressed, or the     *)
(* guard is faulted (SECURITY.md, InputTransaction and pointerGesture).    *)
SeatGivenBack ==
    phase = "idle" /\ ~inputFaulted =>
        /\ pressed = held
        /\ seat.kbFocus # None => mods = "human"
        /\ \A r \in Resources : keymap[r] = seat.keyboard

(* The same for devices and focus, from the step before the transaction to *)
(* the step after it.                                                      *)
SeatUnmoved ==
    [][phase = "restore" /\ phase' = "idle" /\ ~inputFaulted => seat = saved]_vars

(* The transaction presses nothing, and shows its text map to nobody, but  *)
(* its target, and what the human holds down is left alone.                *)
OnlyTheTarget ==
    /\ phase # "idle" =>
          /\ \A e \in pressed \ held : e[1] = tx.target
          /\ \A r \in Resources : keymap[r] = "text" => r[1] = tx.target
    /\ \A h \in held : h \in {<<seat.kbFocus, "key">>, <<seat.ptrFocus, "button">>}

(* A request that is reported as done was done in full, and of one that    *)
(* failed the count of characters is right up to the one in flight.        *)
HonestReply ==
    /\ reply = "ok" /\ tx.kind = "text" => typed = tx.size
    /\ completed <= typed /\ typed <= completed + 1
=============================================================================
