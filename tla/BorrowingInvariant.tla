------------------------- MODULE BorrowingInvariant -------------------------
(***************************************************************************)
(* The inductive invariant behind the properties of FocusBorrowing: what   *)
(* holds between any two calls of a transaction, in terms of the calls     *)
(* that are still to come.                                                 *)
(***************************************************************************)
EXTENDS FocusBorrowing

NeedsKeyboard == ~IsPointer(tx) \/ tx.mods

(* The keyboard resources of the target's client. *)
Theirs == {tx.target} \X (1..Keyboards)

(* The calls that each phase is made of. *)
BorrowCalls ==
    {Do("local", "keyboard"), Set("kbFocus", None), Set("keyboard", "agent"),
     Set("kbFocus", tx.target), Do("check", "keyboard"), Do("check", "text"),
     Do("local", "pointer"), Set("mouse", "agent"), Set("ptrFocus", tx.target),
     Do("check", "pointer")}
    \cup {Map(i, "text", 0) : i \in 1..Keyboards}

KeyCalls == {Do("mods", "agent"), Do("key", "down"), Do("key", "up"), Do("local", "count")}

GestureCalls ==
    {Do("event", "motion"), Do("event", "frame"), Do("event", "axis"), Do("button", "down"),
     Do("button", "up"), Do("local", "released")}
    \cup (IF tx.mods THEN {Do("mods", "agent")} ELSE {})

ActCalls == IF IsPointer(tx) THEN GestureCalls ELSE KeyCalls

CleanupCalls ==
    {Call("button", "up", 1), Call("event", "frame", 1)}
    \cup (IF tx.mods THEN {Call("mods", "agent", 2)} ELSE {})

RestoreCalls ==
    {Call("key", "up", Keyboards + 1), Set("kbFocus", None), Set("keyboard", saved.keyboard),
     Set("kbFocus", saved.kbFocus), Do("mods", "human"), Do("button", "up"),
     Do("event", "frame"), Do("event", "motion"), Set("ptrFocus", saved.ptrFocus),
     Set("mouse", saved.mouse), Do("verify", None)}
    \cup {Map(i, saved.keyboard, i) : i \in 1..Keyboards}

TodoOK ==
    /\ phase \in {"idle", "begun"} => todo = <<>>
    /\ phase = "borrow" => todo \in Seq(BorrowCalls)
    /\ phase = "act" => todo \in Seq(ActCalls)
    /\ phase = "cleanup" => todo \in Seq(CleanupCalls)
    /\ phase = "restore" => todo \in Seq(RestoreCalls)

TypesOK ==
    /\ seat \in Seats /\ saved \in Seats
    /\ mods \in {"human", "agent", "unknown"}
    /\ keymap \in [Resources -> Devices \cup {"text"}]
    /\ held \subseteq pressed /\ pressed \subseteq Pressable
    /\ phase \in {"idle", "begun", "borrow", "act", "cleanup", "restore"}
    /\ tx \in Requests /\ Usable(tx)
    /\ phase # "idle" => tx.target \in Surfaces
    /\ borrowed \subseteq {"keyboard", "pointer"}
    /\ holding \subseteq {"key", "button", "gesture"}
    /\ textResources \in {{}, Theirs} /\ textResources \subseteq Resources
    /\ failed \in BOOLEAN /\ inputFaulted \in BOOLEAN
    /\ reply \in {"none", "ok", "error"}
    /\ TodoOK
-----------------------------------------------------------------------------
(* The human's keys and buttons are down where the human is, and none      *)
(* during a transaction; the guard is not faulted before something is to   *)
(* be undone.                                                              *)
HumanOK ==
    /\ \A h \in held : h \in {<<seat.kbFocus, "key">>, <<seat.ptrFocus, "button">>}
    /\ phase # "idle" => held = {}
    /\ phase \in {"begun", "borrow", "act"} => ~inputFaulted

(* What a transaction presses and which maps it shows. *)
TargetOK ==
    phase # "idle" =>
        /\ pressed \subseteq {<<tx.target, "key">>, <<tx.target, "button">>}
        /\ \A r \in Resources : keymap[r] = "text" => r[1] = tx.target

(* Before restore(), what it goes by is true: holding tells what may be    *)
(* down, borrowed and textResources what may have been touched.            *)
KnownOK ==
    phase \in {"begun", "borrow", "act", "cleanup"} =>
        /\ \A k \in {"key", "button"} : <<tx.target, k>> \in pressed => k \in holding
        /\ \A r \in Resources \ textResources : keymap[r] = seat.keyboard
        /\ "keyboard" \notin borrowed =>
              /\ textResources = {}
              /\ seat.kbFocus = saved.kbFocus
              /\ seat.kbFocus # None => mods = "human"

Begun == phase = "begun" => pressed = {} /\ seat = saved /\ borrowed = {}

SetsField(c, field) == c.op = "set" /\ c.arg.field = field

(* From call n on, no call changes this part of the seat. *)
Final(field, n) == \A i \in n..Len(todo) : ~SetsField(todo[i], field)

(* Call c is to come before call n. *)
Before(c, n) == \E j \in 1..(n - 1) : j <= Len(todo) /\ todo[j] = c

(* The focus is on the target, or is checked after its last change. *)
Focusing(device, field, focus) ==
    \/ focus = tx.target /\ Final(field, 1)
    \/ \E j \in 1..Len(todo) : todo[j] = Do("check", device) /\ Final(field, j + 1)

(* Borrowing: a flag is set, and the resources are noted, before anything  *)
(* is touched; and what is borrowed without a failure has the focus.       *)
BorrowOK ==
    phase = "borrow" =>
        /\ pressed = {}
        /\ \A i \in 1..Len(todo) :
              /\ \/ SetsField(todo[i], "kbFocus") \/ SetsField(todo[i], "keyboard")
                 \/ todo[i] = Do("check", "text")
                 => "keyboard" \in borrowed \/ Before(Do("local", "keyboard"), i)
              /\ todo[i].op = "keymap" =>
                    textResources = Theirs \/ Before(Do("check", "text"), i)
        /\ ~failed /\ NeedsKeyboard =>
              /\ "keyboard" \in borrowed \/ Before(Do("local", "keyboard"), Len(todo) + 1)
              /\ Focusing("keyboard", "kbFocus", seat.kbFocus)
        /\ ~failed /\ IsPointer(tx) =>
              /\ "pointer" \in borrowed \/ Before(Do("local", "pointer"), Len(todo) + 1)
              /\ Focusing("pointer", "ptrFocus", seat.ptrFocus)

ActOK ==
    phase \in {"act", "cleanup"} =>
        /\ NeedsKeyboard => "keyboard" \in borrowed /\ seat.kbFocus = tx.target
        /\ IsPointer(tx) => "pointer" \in borrowed /\ seat.ptrFocus = tx.target
        /\ <<tx.target, "key">> \in pressed => ~IsPointer(tx)
        /\ <<tx.target, "button">> \in pressed => IsPointer(tx)
-----------------------------------------------------------------------------
(* While restore() runs without a fault, whatever is not as it was is put  *)
(* right by a call to come, at a time when that call works.                *)
KeysComeUp ==
    /\ <<tx.target, "key">> \in pressed =>
          /\ todo # <<>> /\ todo[1].op = "key"
          /\ seat.kbFocus = tx.target
    /\ <<tx.target, "button">> \in pressed =>
          /\ \E j \in 1..Len(todo) :
                /\ todo[j].op = "button"
                /\ \A i \in 1..j : ~SetsField(todo[i], "ptrFocus")
          /\ seat.ptrFocus = tx.target

ModsComeBack ==
    saved.kbFocus # None =>
        \/ mods = "human" /\ Final("kbFocus", 1)
        \/ \E j \in 1..Len(todo) : todo[j] = Do("mods", "human") /\ Final("kbFocus", j + 1)

MapsComeBack ==
    \A r \in Resources :
        \/ keymap[r] \in {seat.keyboard, saved.keyboard}
        \/ \E j \in 1..Len(todo) :
              todo[j].op = "keymap" /\ todo[j].arg.resource = r

VerifyComes ==
    /\ todo = <<>> => seat = saved
    /\ todo # <<>> => todo[Len(todo)].op = "verify"

RestoreOK ==
    phase = "restore" /\ ~inputFaulted =>
        KeysComeUp /\ ModsComeBack /\ MapsComeBack /\ VerifyComes

BorrowingInv ==
    /\ TypesOK /\ HumanOK /\ TargetOK /\ KnownOK /\ Begun /\ BorrowOK /\ ActOK
    /\ RestoreOK /\ SeatGivenBack
-----------------------------------------------------------------------------
(* Calls for one character; the last d calls of it are behind. *)
CharScript == KeyScript \o <<Do("local", "count")>>

Typing ==
    \E d \in 0..4 :
        /\ Len(todo) + d = 5 * (tx.size - completed)
        /\ typed = IF d >= 2 THEN completed + 1 ELSE completed
        /\ \A i \in 1..Len(todo) : todo[i] = CharScript[((i - 1 + d) % 5) + 1]

OneKey ==
    \E d \in 0..4 :
        /\ Len(todo) + d = 4
        /\ typed = IF d >= 2 THEN 1 ELSE 0
        /\ \A i \in 1..Len(todo) : todo[i] = KeyScript[i + d]

(* How many characters are typed and counted. *)
CountOK ==
    /\ completed \in Nat /\ typed \in Nat
    /\ completed <= typed /\ typed <= completed + 1
    /\ completed <= IF tx.kind = "text" THEN tx.size ELSE 0
    /\ phase \in {"begun", "borrow"} => typed = 0
    /\ phase = "act" =>
          /\ failed => todo = <<>>
          /\ ~failed /\ tx.kind = "text" => Typing
          /\ ~failed /\ tx.kind = "key" => OneKey
    /\ phase = "cleanup" => IsPointer(tx)
    /\ phase = "restore" /\ ~failed /\ tx.kind = "text" => typed = tx.size
    /\ phase # "idle" => reply = "none"
    /\ reply = "ok" /\ tx.kind = "text" => typed = tx.size
=============================================================================
