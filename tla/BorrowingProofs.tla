-------------------------- MODULE BorrowingProofs --------------------------
(***************************************************************************)
(* The seat is given back, the target alone is touched, and characters are *)
(* counted rightly, for any number of surfaces, keyboards, characters and  *)
(* clicks: the invariant of BorrowingInvariant is inductive.               *)
(***************************************************************************)
EXTENDS BorrowingInvariant, SequenceTheorems, TLAPS
-----------------------------------------------------------------------------
(* Sequences, by their elements.                                           *)

(* What is left behind the first call. *)
LEMMA TailAt ==
    ASSUME NEW S, NEW s \in Seq(S), s # <<>>
    PROVE  /\ Len(s) \in Nat /\ Len(s) >= 1
           /\ Head(s) = s[1] /\ s[1] \in S
           /\ Tail(s) \in Seq(S) /\ Len(Tail(s)) = Len(s) - 1
           /\ \A i \in 1..Len(Tail(s)) : Tail(s)[i] = s[i + 1]
           /\ \A i \in 1..Len(s) : s[i] \in S
           /\ \A i \in 2..Len(s) : Tail(s)[i - 1] = s[i]
<1>1. Len(s) \in Nat /\ Len(s) >= 1 /\ Tail(s) \in Seq(S) /\ Len(Tail(s)) = Len(s) - 1
  OBVIOUS
<1>2. Head(s) = s[1] /\ \A i \in 1..Len(s) : s[i] \in S
  BY <1>1
<1>3. \A i \in 1..Len(Tail(s)) : Tail(s)[i] = s[i + 1]
  BY <1>1
<1>4. \A i \in 2..Len(s) : Tail(s)[i - 1] = s[i]
  BY <1>1, <1>3
<1> QED BY <1>1, <1>2, <1>3, <1>4

LEMMA EmptyAt ==
    ASSUME NEW S, NEW s \in Seq(S)
    PROVE  /\ Len(s) \in Nat
           /\ s = <<>> <=> Len(s) = 0
           /\ \A i \in 1..Len(s) : s[i] \in S
BY EmptySeq

LEMMA ConcatAt ==
    ASSUME NEW S, NEW s \in Seq(S), NEW t \in Seq(S)
    PROVE  /\ s \o t \in Seq(S)
           /\ Len(s) \in Nat /\ Len(t) \in Nat /\ Len(s \o t) = Len(s) + Len(t)
           /\ \A i \in 1..Len(s) : (s \o t)[i] = s[i]
           /\ \A i \in 1..Len(t) : (s \o t)[Len(s) + i] = t[i]
OBVIOUS

(* One script after the other, n times. *)
LEMMA RepeatAt ==
    ASSUME NEW S, NEW script \in Seq(S), NEW n \in Nat, NEW k \in {1, 2, 3, 4, 5},
           Len(script) = k
    PROVE  /\ Repeat(n, script) \in Seq(S) /\ Len(Repeat(n, script)) = n * k
           /\ \A i \in 1..(n * k) :
                 ((i - 1) % k) + 1 \in 1..k /\ Repeat(n, script)[i] = script[((i - 1) % k) + 1]
<1>1. n * k \in Nat
  OBVIOUS
<1>2. \A i \in 1..(n * k) : ((i - 1) % k) + 1 \in 1..k
  <2>1. CASE k = 1
    BY <2>1
  <2>2. CASE k = 2
    BY <2>2
  <2>3. CASE k = 3
    BY <2>3
  <2>4. CASE k = 4
    BY <2>4
  <2>5. CASE k = 5
    BY <2>5
  <2> QED BY <2>1, <2>2, <2>3, <2>4, <2>5
<1> DEFINE m == n * k
           at(i) == script[((i - 1) % k) + 1]
<1>3. Repeat(n, script) = [i \in 1..m |-> at(i)]
  BY DEF Repeat
<1>4. \A i \in 1..m : at(i) \in S
  BY <1>2
<1> HIDE DEF m, at
<1>5. [i \in 1..m |-> at(i)] \in Seq(S) /\ Len([i \in 1..m |-> at(i)]) = m
  BY <1>1, <1>4 DEF m
<1>6. \A i \in 1..m : Repeat(n, script)[i] = at(i)
  BY <1>3
<1> QED BY <1>2, <1>3, <1>5, <1>6 DEF m, at

(* Calls of one try block are all skipped. *)
LEMMA LeaveOnlyBlock ==
    ASSUME NEW S, todo \in Seq(S), todo # <<>>, \A c \in S : c.try = 0, LeaveBlock
    PROVE  todo' = <<>>
<1>1. PICK n \in 1..Len(todo) :
          /\ n < Len(todo) => todo[n + 1].try # Head(todo).try
          /\ todo' = SubSeq(todo, n + 1, Len(todo))
  BY DEF LeaveBlock
<1>2. Len(todo) \in Nat /\ \A i \in 1..Len(todo) : todo[i].try = 0
  BY TailAt
<1>3. Head(todo).try = 0
  BY <1>2, TailAt
<1>4. n = Len(todo)
  <2>1. ~(n < Len(todo))
    BY <1>1, <1>2, <1>3
  <2> QED BY <1>2, <2>1
<1>5. SubSeq(todo, n + 1, Len(todo)) = <<>>
  BY <1>2, <1>4
<1> QED BY <1>1, <1>5

LEMMA LeaveBlockSeq ==
    ASSUME NEW S, todo \in Seq(S), LeaveBlock
    PROVE  todo' \in Seq(S)
<1>1. PICK n \in 1..Len(todo) : todo' = SubSeq(todo, n + 1, Len(todo))
  BY DEF LeaveBlock
<1>2. SubSeq(todo, n + 1, Len(todo)) \in Seq(S)
  <2>1. \A i \in (n + 1)..Len(todo) : todo[i] \in S
    BY EmptyAt
  <2> QED BY <2>1, SubSeqProperties
<1> QED BY <1>1, <1>2
-----------------------------------------------------------------------------
(* What the calls of each phase are. *)

LEMMA BorrowCallIs ==
    ASSUME NEW c \in BorrowCalls
    PROVE  /\ c.try = 0 /\ c.op \in {"local", "set", "check", "keymap"}
           /\ c.op = "local" => c.arg \in {"keyboard", "pointer"}
           /\ c.op = "check" => c.arg \in {"keyboard", "text", "pointer"}
           /\ c.op = "check" => c = Do("check", c.arg)
           /\ c.op = "set" => /\ c.arg.field \in {"kbFocus", "keyboard", "mouse", "ptrFocus"}
                              /\ c.arg.field \in {"kbFocus", "ptrFocus"} =>
                                    c.arg.value \in {None, tx.target}
                              /\ c.arg.field \in {"keyboard", "mouse"} => c.arg.value = "agent"
           /\ c.op = "keymap" => c.arg.resource \in Theirs /\ c.arg.map = "text"
<1>1. CASE c \in {Map(i, "text", 0) : i \in 1..Keyboards}
  <2>1. PICK i \in 1..Keyboards : c = Map(i, "text", 0)
    BY <1>1
  <2>2. /\ c.op = "keymap" /\ c.try = 0
        /\ c.arg = [resource |-> <<tx.target, i>>, map |-> "text"]
    BY <2>1 DEF Map, Call
  <2> QED BY <2>2 DEF Theirs
<1>2. CASE c \in {Do("local", "keyboard"), Do("local", "pointer")}
  BY <1>2 DEF Do, Call
<1>3. CASE c \in {Do("check", "keyboard"), Do("check", "text"), Do("check", "pointer")}
  BY <1>3 DEF Do, Call
<1>4. CASE c \in {Set("kbFocus", None), Set("kbFocus", tx.target), Set("ptrFocus", tx.target)}
  BY <1>4 DEF Set, Do, Call
<1>5. CASE c \in {Set("keyboard", "agent"), Set("mouse", "agent")}
  BY <1>5 DEF Set, Do, Call
<1> QED BY <1>1, <1>2, <1>3, <1>4, <1>5 DEF BorrowCalls

LEMMA ActCallIs ==
    ASSUME NEW c \in ActCalls
    PROVE  /\ c.try = 0 /\ c.op \in {"mods", "key", "local", "event", "button"}
           /\ c.op = "mods" => c.arg = "agent" /\ NeedsKeyboard
           /\ c.op \in {"key", "button"} => c.arg \in {"down", "up"}
           /\ c.op = "local" => c.arg \in {"count", "released"}
           /\ c.op = "local" /\ c.arg = "count" => ~IsPointer(tx)
           /\ c.op = "key" => ~IsPointer(tx)
           /\ c.op = "button" => IsPointer(tx)
<1>1. CASE IsPointer(tx)
  <2>1. CASE c \in {Do("event", "motion"), Do("event", "frame"), Do("event", "axis"),
                    Do("button", "down"), Do("button", "up"), Do("local", "released")}
    BY <1>1, <2>1 DEF Do, Call
  <2>2. CASE tx.mods /\ c = Do("mods", "agent")
    BY <1>1, <2>2 DEF Do, Call, NeedsKeyboard
  <2> QED BY <1>1, <2>1, <2>2 DEF ActCalls, GestureCalls
<1>2. CASE ~IsPointer(tx)
  <2>1. c \in {Do("mods", "agent"), Do("key", "down"), Do("key", "up"), Do("local", "count")}
    BY <1>2 DEF ActCalls, KeyCalls
  <2> QED BY <1>2, <2>1 DEF Do, Call, NeedsKeyboard
<1> QED BY <1>1, <1>2

LEMMA CleanupCallIs ==
    ASSUME NEW c \in CleanupCalls
    PROVE  /\ c.op \in {"mods", "event", "button"}
           /\ c.op = "mods" => c.arg = "agent" /\ NeedsKeyboard
           /\ c.op = "button" => c.arg = "up"
<1>1. CASE c \in {Call("button", "up", 1), Call("event", "frame", 1)}
  BY <1>1 DEF Call
<1>2. CASE tx.mods /\ c = Call("mods", "agent", 2)
  BY <1>2 DEF Call, NeedsKeyboard
<1> QED BY <1>1, <1>2 DEF CleanupCalls

LEMMA RestoreCallIs ==
    ASSUME NEW c \in RestoreCalls
    PROVE  /\ c.op \in {"key", "set", "mods", "button", "event", "verify", "keymap"}
           /\ c.op \in {"key", "button"} => c.arg = "up"
           /\ c.op = "mods" => c.arg = "human"
           /\ c.op = "set" => /\ c.arg.field \in {"kbFocus", "keyboard", "mouse", "ptrFocus"}
                              /\ c.arg.field = "kbFocus" => c.arg.value \in {None, saved.kbFocus}
                              /\ c.arg.field = "ptrFocus" => c.arg.value = saved.ptrFocus
                              /\ c.arg.field = "keyboard" => c.arg.value = saved.keyboard
                              /\ c.arg.field = "mouse" => c.arg.value = saved.mouse
           /\ c.op = "keymap" => c.arg.resource \in Theirs /\ c.arg.map = saved.keyboard
<1>1. CASE c \in {Map(i, saved.keyboard, i) : i \in 1..Keyboards}
  <2>1. PICK i \in 1..Keyboards : c = Map(i, saved.keyboard, i)
    BY <1>1
  <2>2. c.op = "keymap" /\ c.arg = [resource |-> <<tx.target, i>>, map |-> saved.keyboard]
    BY <2>1 DEF Map, Call
  <2> QED BY <2>2 DEF Theirs
<1>2. CASE c \in {Call("key", "up", Keyboards + 1), Do("mods", "human"), Do("button", "up"),
                  Do("event", "frame"), Do("event", "motion"), Do("verify", None)}
  BY <1>2 DEF Do, Call
<1>3. CASE c \in {Set("kbFocus", None), Set("kbFocus", saved.kbFocus)}
  BY <1>3 DEF Set, Do, Call
<1>4. CASE c \in {Set("keyboard", saved.keyboard), Set("ptrFocus", saved.ptrFocus),
                  Set("mouse", saved.mouse)}
  BY <1>4 DEF Set, Do, Call
<1> QED BY <1>1, <1>2, <1>3, <1>4 DEF RestoreCalls

LEMMA SameCalls ==
    ASSUME tx' = tx, saved' = saved
    PROVE  /\ BorrowCalls' = BorrowCalls /\ ActCalls' = ActCalls
           /\ CleanupCalls' = CleanupCalls /\ RestoreCalls' = RestoreCalls
           /\ Theirs' = Theirs /\ NeedsKeyboard' = NeedsKeyboard
<1>1. BorrowCalls' = BorrowCalls
  BY DEF BorrowCalls, Map
<1>2. ActCalls' = ActCalls
  BY DEF ActCalls, GestureCalls, KeyCalls, IsPointer
<1>3. CleanupCalls' = CleanupCalls
  BY DEF CleanupCalls
<1>4. RestoreCalls' = RestoreCalls
  BY DEF RestoreCalls, Map
<1> QED BY <1>1, <1>2, <1>3, <1>4 DEF Theirs, NeedsKeyboard, IsPointer
-----------------------------------------------------------------------------
(* How a call changes the calls to come. *)

Shifted ==
    /\ Len(todo) \in Nat /\ Len(todo') \in Nat /\ Len(todo') = Len(todo) - 1
    /\ \A i \in 1..Len(todo') : todo'[i] = todo[i + 1]
    /\ \A i \in 2..Len(todo) : todo'[i - 1] = todo[i]

(* A call that does not throw leaves the others; one that throws ends the  *)
(* phase, or is a fault.                                                   *)
LEMMA CallTaken ==
    ASSUME TypesOK, NEW threw \in BOOLEAN, After(threw), tx' = tx, saved' = saved
    PROVE  /\ phase' = phase /\ phase \in {"borrow", "act", "cleanup", "restore"}
           /\ todo # <<>> /\ Head(todo) = todo[1] /\ Len(todo) \in Nat /\ Len(todo) >= 1
           /\ phase = "borrow" => /\ todo[1] \in BorrowCalls
                                  /\ \A i \in 1..Len(todo) : todo[i] \in BorrowCalls
           /\ phase = "act" => todo[1] \in ActCalls /\ todo \in Seq(ActCalls)
           /\ phase = "cleanup" => todo[1] \in CleanupCalls
           /\ phase = "restore" => todo[1] \in RestoreCalls
           /\ ~threw => todo' = Tail(todo) /\ Shifted /\ failed' = failed
                        /\ inputFaulted' = inputFaulted
           /\ threw /\ phase \in {"borrow", "act"} =>
                 todo' = <<>> /\ Len(todo') = 0 /\ failed' /\ inputFaulted' = inputFaulted
           /\ threw /\ phase \in {"cleanup", "restore"} =>
                 inputFaulted' /\ failed' = failed
           /\ failed' \in BOOLEAN /\ inputFaulted' \in BOOLEAN
           /\ TodoOK'
<1>1. /\ phase' = phase /\ todo # <<>> /\ phase \in {"borrow", "act", "cleanup", "restore"}
      /\ IF threw THEN LeaveBlock ELSE todo' = Tail(todo)
      /\ failed' = (failed \/ (threw /\ phase \in {"borrow", "act"}))
      /\ inputFaulted' = (inputFaulted \/ (threw /\ phase \in {"cleanup", "restore"}))
      /\ failed \in BOOLEAN /\ inputFaulted \in BOOLEAN
  BY DEF After, Fault, TypesOK, TodoOK
<1>2. /\ BorrowCalls' = BorrowCalls /\ ActCalls' = ActCalls
      /\ CleanupCalls' = CleanupCalls /\ RestoreCalls' = RestoreCalls
  BY SameCalls
<1>3. ASSUME NEW S, todo \in Seq(S)
      PROVE  /\ Head(todo) = todo[1] /\ Len(todo) \in Nat /\ Len(todo) >= 1 /\ todo[1] \in S
             /\ todo' \in Seq(S)
             /\ ~threw => Shifted
  <2>1. /\ Len(todo) \in Nat /\ Len(todo) >= 1
        /\ Head(todo) = todo[1] /\ todo[1] \in S
        /\ Tail(todo) \in Seq(S) /\ Len(Tail(todo)) = Len(todo) - 1
        /\ \A i \in 1..Len(Tail(todo)) : Tail(todo)[i] = todo[i + 1]
        /\ \A i \in 2..Len(todo) : Tail(todo)[i - 1] = todo[i]
    BY <1>1, <1>3, TailAt
  <2>2. ~threw => todo' \in Seq(S) /\ Shifted
    <3> SUFFICES ASSUME ~threw PROVE todo' \in Seq(S) /\ Shifted
      OBVIOUS
    <3>1. todo' = Tail(todo)
      BY <1>1
    <3> QED BY <2>1, <3>1 DEF Shifted
  <2>3. threw => todo' \in Seq(S)
    BY <1>1, <1>3, LeaveBlockSeq
  <2> QED BY <2>1, <2>2, <2>3
<1>4. CASE phase = "borrow"
  <2>1. todo \in Seq(BorrowCalls)
    BY <1>4 DEF TypesOK, TodoOK
  <2>2. threw => todo' = <<>> /\ Len(todo') = 0
    BY <1>1, <2>1, BorrowCallIs, LeaveOnlyBlock, EmptySeq
  <2>3. todo' \in Seq(BorrowCalls)
    BY <1>3, <2>1
  <2> QED BY <1>1, <1>2, <1>3, <1>4, <2>1, <2>2, <2>3, EmptyAt DEF TodoOK
<1>5. CASE phase = "act"
  <2>1. todo \in Seq(ActCalls)
    BY <1>5 DEF TypesOK, TodoOK
  <2>2. threw => todo' = <<>> /\ Len(todo') = 0
    BY <1>1, <2>1, ActCallIs, LeaveOnlyBlock, EmptySeq
  <2>3. todo' \in Seq(ActCalls)
    BY <1>3, <2>1
  <2> QED BY <1>1, <1>2, <1>3, <1>5, <2>1, <2>2, <2>3 DEF TodoOK
<1>6. CASE phase = "cleanup"
  <2>1. todo \in Seq(CleanupCalls)
    BY <1>6 DEF TypesOK, TodoOK
  <2>2. todo' \in Seq(CleanupCalls)
    BY <1>3, <2>1
  <2> QED BY <1>1, <1>2, <1>3, <1>6, <2>1, <2>2 DEF TodoOK
<1>7. CASE phase = "restore"
  <2>1. todo \in Seq(RestoreCalls)
    BY <1>7 DEF TypesOK, TodoOK
  <2>2. todo' \in Seq(RestoreCalls)
    BY <1>3, <2>1
  <2> QED BY <1>1, <1>2, <1>3, <1>7, <2>1, <2>2 DEF TodoOK
<1> QED BY <1>1, <1>4, <1>5, <1>6, <1>7

(* What was to come is done now, or is still to come. *)
LEMMA StillToCome ==
    ASSUME Shifted, NEW c, NEW n \in Int, Before(c, n)
    PROVE  todo[1] = c \/ Before(c, n - 1)'
<1>1. PICK j \in 1..(n - 1) : j <= Len(todo) /\ todo[j] = c
  BY DEF Before
<1>2. CASE j = 1
  BY <1>1, <1>2
<1>3. CASE j # 1
  <2>1. j - 1 \in 1..(n - 2) /\ j - 1 <= Len(todo') /\ todo'[j - 1] = c
    BY <1>1, <1>3 DEF Shifted
  <2> QED BY <2>1 DEF Before
<1> QED BY <1>2, <1>3

LEMMA StaysFinal ==
    ASSUME Shifted, NEW field, NEW n \in Nat, n >= 1
    PROVE  /\ Final(field, n + 1) => Final(field, n)'
           /\ Final(field, 1) => Final(field, 1)'
<1>1. ASSUME Final(field, n + 1) PROVE Final(field, n)'
  <2>1. \A i \in n..Len(todo') : ~SetsField(todo'[i], field)
    BY <1>1 DEF Final, Shifted
  <2> QED BY <2>1 DEF Final, SetsField
<1>2. ASSUME Final(field, 1) PROVE Final(field, 1)'
  <2>1. \A i \in 1..Len(todo') : ~SetsField(todo'[i], field)
    BY <1>2 DEF Final, Shifted
  <2> QED BY <2>1 DEF Final, SetsField
<1> QED BY <1>1, <1>2
-----------------------------------------------------------------------------
(* Borrowing goes on: a call sets what it is there for, and moves nothing  *)
(* else.                                                                   *)
LEMMA BorrowGoesOn ==
    ASSUME TypesOK, BorrowOK, phase = "borrow",
           NEW threw \in BOOLEAN, After(threw), tx' = tx, saved' = saved,
           pressed' = pressed, borrowed \subseteq borrowed',
           textResources = Theirs => textResources' = Theirs,
           ~threw /\ todo[1].op = "local" => todo[1].arg \in borrowed',
           ~threw /\ todo[1] = Do("check", "text") => textResources' = Theirs,
           ~threw /\ ~SetsField(todo[1], "kbFocus") => seat'.kbFocus = seat.kbFocus,
           ~threw /\ ~SetsField(todo[1], "ptrFocus") => seat'.ptrFocus = seat.ptrFocus,
           ~threw /\ todo[1] = Do("check", "keyboard") => seat.kbFocus = tx.target,
           ~threw /\ todo[1] = Do("check", "pointer") => seat.ptrFocus = tx.target
    PROVE  BorrowOK'
<1>1. /\ phase' = phase /\ Len(todo) \in Nat /\ Len(todo) >= 1
      /\ ~threw => Shifted /\ failed' = failed
      /\ threw => Len(todo') = 0 /\ failed'
  BY CallTaken
<1>2. Theirs' = Theirs /\ NeedsKeyboard' = NeedsKeyboard /\ IsPointer(tx)' = IsPointer(tx)
  BY SameCalls DEF IsPointer
<1>3. pressed' = {}
  BY DEF BorrowOK
<1>4. CASE threw
  BY <1>1, <1>3, <1>4 DEF BorrowOK
<1>5. CASE ~threw
  <2> DEFINE lk == Do("local", "keyboard")
             lp == Do("local", "pointer")
             ct == Do("check", "text")
             k == Do("check", "keyboard")
             p == Do("check", "pointer")
  <2>1. /\ Shifted /\ failed' = failed
    BY <1>1, <1>5
  <2>2. /\ todo[1] = lk => "keyboard" \in borrowed'
        /\ todo[1] = lp => "pointer" \in borrowed'
        /\ todo[1] = ct => textResources' = Theirs'
        /\ textResources = Theirs => textResources' = Theirs'
        /\ "keyboard" \in borrowed => "keyboard" \in borrowed'
        /\ "pointer" \in borrowed => "pointer" \in borrowed'
    BY <1>2, <1>5 DEF Do, Call
  <2>3. ASSUME NEW i \in 1..Len(todo')
        PROVE  /\ \/ SetsField(todo'[i], "kbFocus") \/ SetsField(todo'[i], "keyboard")
                  \/ todo'[i] = ct
                  => "keyboard" \in borrowed' \/ Before(lk, i)'
               /\ todo'[i].op = "keymap" => textResources' = Theirs' \/ Before(ct, i)'
    <3>1. i + 1 \in 1..Len(todo) /\ todo'[i] = todo[i + 1] /\ (i + 1) - 1 = i
      BY <2>1 DEF Shifted
    <3>2. /\ \/ SetsField(todo[i + 1], "kbFocus") \/ SetsField(todo[i + 1], "keyboard")
             \/ todo[i + 1] = ct
             => "keyboard" \in borrowed \/ Before(lk, i + 1)
          /\ todo[i + 1].op = "keymap" => textResources = Theirs \/ Before(ct, i + 1)
      BY <3>1 DEF BorrowOK
    <3>3. Before(lk, i + 1) => todo[1] = lk \/ Before(lk, i)'
      <4>1. ASSUME Before(lk, i + 1) PROVE todo[1] = lk \/ Before(lk, (i + 1) - 1)'
        BY <2>1, <4>1, StillToCome
      <4> QED BY <3>1, <4>1
    <3>4. Before(ct, i + 1) => todo[1] = ct \/ Before(ct, i)'
      <4>1. ASSUME Before(ct, i + 1) PROVE todo[1] = ct \/ Before(ct, (i + 1) - 1)'
        BY <2>1, <4>1, StillToCome
      <4> QED BY <3>1, <4>1
    <3> HIDE DEF lk, ct
    <3> QED BY <2>2, <3>1, <3>2, <3>3, <3>4
  <2>4. ASSUME NEW c, Before(c, Len(todo) + 1) PROVE todo[1] = c \/ Before(c, Len(todo) + 1)'
    <3>1. PICK n \in Int : n = Len(todo) + 1
      BY <1>1
    <3>2. todo[1] = c \/ Before(c, n - 1)'
      BY <2>1, <2>4, <3>1, StillToCome
    <3>3. Len(todo') + 1 = n - 1
      BY <2>1, <3>1 DEF Shifted
    <3>4. Before(c, n - 1)' => Before(c, Len(todo) + 1)'
      BY <3>3 DEF Before
    <3> QED BY <3>2, <3>4
  <2>5. ASSUME Focusing("keyboard", "kbFocus", seat.kbFocus)
        PROVE  Focusing("keyboard", "kbFocus", seat.kbFocus)'
    <3>1. CASE seat.kbFocus = tx.target /\ Final("kbFocus", 1)
      <4>1. ~SetsField(todo[1], "kbFocus")
        BY <1>1, <3>1 DEF Final
      <4>2. Final("kbFocus", 1)'
        BY <2>1, <3>1, StaysFinal
      <4> QED BY <1>5, <3>1, <4>1, <4>2 DEF Focusing
    <3>2. ASSUME NEW j \in 1..Len(todo), todo[j] = k, Final("kbFocus", j + 1)
          PROVE  Focusing("keyboard", "kbFocus", seat.kbFocus)'
      <4>1. CASE j = 1
        <5>1. seat.kbFocus = tx.target /\ ~SetsField(todo[1], "kbFocus")
          BY <1>5, <3>2, <4>1 DEF Do, Call, SetsField
        <5>2. Final("kbFocus", 1)'
          BY <2>1, <3>2, <4>1, StaysFinal
        <5> QED BY <1>5, <5>1, <5>2 DEF Focusing
      <4>2. CASE j # 1
        <5>1. j - 1 \in 1..Len(todo') /\ todo'[j - 1] = k /\ j - 1 \in Nat /\ j - 1 >= 1
          BY <2>1, <3>2, <4>2 DEF Shifted
        <5>2. Final("kbFocus", j)'
          BY <2>1, <3>2, StaysFinal
        <5>3. (j - 1) + 1 = j
          OBVIOUS
        <5>4. Final("kbFocus", (j - 1) + 1)'
          BY <5>2, <5>3
        <5> QED BY <5>1, <5>4 DEF Focusing
      <4> QED BY <4>1, <4>2
    <3> QED BY <2>5, <3>1, <3>2 DEF Focusing
  <2>6. ASSUME Focusing("pointer", "ptrFocus", seat.ptrFocus)
        PROVE  Focusing("pointer", "ptrFocus", seat.ptrFocus)'
    <3>1. CASE seat.ptrFocus = tx.target /\ Final("ptrFocus", 1)
      <4>1. ~SetsField(todo[1], "ptrFocus")
        BY <1>1, <3>1 DEF Final
      <4>2. Final("ptrFocus", 1)'
        BY <2>1, <3>1, StaysFinal
      <4> QED BY <1>5, <3>1, <4>1, <4>2 DEF Focusing
    <3>2. ASSUME NEW j \in 1..Len(todo), todo[j] = p, Final("ptrFocus", j + 1)
          PROVE  Focusing("pointer", "ptrFocus", seat.ptrFocus)'
      <4>1. CASE j = 1
        <5>1. seat.ptrFocus = tx.target /\ ~SetsField(todo[1], "ptrFocus")
          BY <1>5, <3>2, <4>1 DEF Do, Call, SetsField
        <5>2. Final("ptrFocus", 1)'
          BY <2>1, <3>2, <4>1, StaysFinal
        <5> QED BY <1>5, <5>1, <5>2 DEF Focusing
      <4>2. CASE j # 1
        <5>1. j - 1 \in 1..Len(todo') /\ todo'[j - 1] = p /\ j - 1 \in Nat /\ j - 1 >= 1
          BY <2>1, <3>2, <4>2 DEF Shifted
        <5>2. Final("ptrFocus", j)'
          BY <2>1, <3>2, StaysFinal
        <5>3. (j - 1) + 1 = j
          OBVIOUS
        <5>4. Final("ptrFocus", (j - 1) + 1)'
          BY <5>2, <5>3
        <5> QED BY <5>1, <5>4 DEF Focusing
      <4> QED BY <4>1, <4>2
    <3> QED BY <2>6, <3>1, <3>2 DEF Focusing
  <2>7. /\ ~failed /\ NeedsKeyboard =>
              /\ "keyboard" \in borrowed \/ Before(lk, Len(todo) + 1)
              /\ Focusing("keyboard", "kbFocus", seat.kbFocus)
        /\ ~failed /\ IsPointer(tx) =>
              /\ "pointer" \in borrowed \/ Before(lp, Len(todo) + 1)
              /\ Focusing("pointer", "ptrFocus", seat.ptrFocus)
    BY DEF BorrowOK
  <2>8. /\ ~failed' /\ NeedsKeyboard' =>
              /\ "keyboard" \in borrowed' \/ Before(lk, Len(todo) + 1)'
              /\ Focusing("keyboard", "kbFocus", seat.kbFocus)'
        /\ ~failed' /\ IsPointer(tx)' =>
              /\ "pointer" \in borrowed' \/ Before(lp, Len(todo) + 1)'
              /\ Focusing("pointer", "ptrFocus", seat.ptrFocus)'
    BY <1>2, <2>1, <2>2, <2>4, <2>5, <2>6, <2>7
  <2> QED BY <1>3, <2>3, <2>8 DEF BorrowOK
<1> QED BY <1>4, <1>5
-----------------------------------------------------------------------------
(* Restoring goes on: a call puts right what it is there for, and spoils   *)
(* nothing else.                                                           *)
LEMMA RestoreGoesOn ==
    ASSUME TypesOK, RestoreOK, phase = "restore",
           NEW threw \in BOOLEAN, After(threw), tx' = tx, saved' = saved,
           ~threw => pressed' \subseteq pressed,
           ~threw /\ todo[1].op = "key" /\ seat.kbFocus = tx.target =>
              <<tx.target, "key">> \notin pressed',
           ~threw /\ todo[1].op = "button" /\ seat.ptrFocus = tx.target =>
              <<tx.target, "button">> \notin pressed',
           ~threw /\ ~SetsField(todo[1], "ptrFocus") => seat'.ptrFocus = seat.ptrFocus,
           ~threw /\ ~SetsField(todo[1], "kbFocus") => mods' = mods \/ todo[1].op = "mods",
           ~threw /\ todo[1].op = "mods" => mods' = "human",
           ~threw => \A r \in Resources :
              \/ keymap'[r] = keymap[r] /\ seat'.keyboard = seat.keyboard
              \/ keymap'[r] \in {seat'.keyboard, saved.keyboard},
           ~threw /\ todo[1].op = "keymap" => keymap'[todo[1].arg.resource] = saved.keyboard,
           ~threw /\ todo[1].op = "verify" => seat' = saved
    PROVE  RestoreOK'
<1> SUFFICES ASSUME ~inputFaulted'
             PROVE  KeysComeUp' /\ ModsComeBack' /\ MapsComeBack' /\ VerifyComes'
  BY DEF RestoreOK
<1>1. /\ ~threw /\ Shifted /\ ~inputFaulted /\ Len(todo) \in Nat /\ Len(todo) >= 1
      /\ todo # <<>>
  BY CallTaken
<1>2. KeysComeUp /\ ModsComeBack /\ MapsComeBack /\ VerifyComes
  BY <1>1 DEF RestoreOK
<1>3. KeysComeUp'
  <2>1. <<tx.target, "key">> \notin pressed'
    BY <1>1, <1>2 DEF KeysComeUp
  <2>2. ASSUME <<tx.target, "button">> \in pressed'
        PROVE  /\ \E j \in 1..Len(todo') :
                     /\ todo'[j].op = "button"
                     /\ \A i \in 1..j : ~SetsField(todo'[i], "ptrFocus")
               /\ seat'.ptrFocus = tx.target
    <3>1. seat.ptrFocus = tx.target /\ todo[1].op # "button"
      BY <1>1, <1>2, <2>2 DEF KeysComeUp
    <3>2. PICK j \in 1..Len(todo) :
              /\ todo[j].op = "button"
              /\ \A i \in 1..j : ~SetsField(todo[i], "ptrFocus")
      BY <1>1, <1>2, <2>2 DEF KeysComeUp
    <3>3. j # 1
      BY <3>1, <3>2
    <3>4. seat'.ptrFocus = tx.target
      <4>1. 1 \in 1..j
        OBVIOUS
      <4> QED BY <1>1, <3>1, <3>2, <4>1
    <3>5. j - 1 \in 1..Len(todo') /\ todo'[j - 1].op = "button"
      BY <1>1, <3>2, <3>3 DEF Shifted
    <3>6. ASSUME NEW i \in 1..(j - 1) PROVE ~SetsField(todo'[i], "ptrFocus")
      <4>1. i + 1 \in 1..j /\ i \in 1..Len(todo') /\ todo'[i] = todo[i + 1]
        BY <1>1, <3>5 DEF Shifted
      <4> QED BY <3>2, <4>1
    <3> QED BY <3>4, <3>5, <3>6
  <2> QED BY <2>1, <2>2 DEF KeysComeUp, SetsField
<1>4. ModsComeBack'
  <2> SUFFICES ASSUME saved.kbFocus # None
               PROVE  \/ mods' = "human" /\ Final("kbFocus", 1)'
                      \/ \E j \in 1..Len(todo') :
                            todo'[j] = Do("mods", "human") /\ Final("kbFocus", j + 1)'
    BY DEF ModsComeBack, Final, SetsField
  <2>1. CASE mods = "human" /\ Final("kbFocus", 1)
    <3>1. ~SetsField(todo[1], "kbFocus")
      BY <1>1, <2>1 DEF Final
    <3>2. mods' = "human"
      BY <1>1, <2>1, <3>1
    <3> QED BY <1>1, <2>1, <3>2, StaysFinal
  <2>2. ASSUME NEW j \in 1..Len(todo), todo[j] = Do("mods", "human"), Final("kbFocus", j + 1)
        PROVE  \/ mods' = "human" /\ Final("kbFocus", 1)'
               \/ \E i \in 1..Len(todo') :
                     todo'[i] = Do("mods", "human") /\ Final("kbFocus", i + 1)'
    <3>1. Final("kbFocus", j)'
      BY <1>1, <2>2, StaysFinal
    <3>2. CASE j = 1
      <4>1. todo[1].op = "mods"
        BY <2>2, <3>2 DEF Do, Call
      <4> QED BY <1>1, <3>1, <3>2, <4>1
    <3>3. CASE j # 1
      <4>1. j - 1 \in 1..Len(todo') /\ todo'[j - 1] = Do("mods", "human") /\ (j - 1) + 1 = j
        BY <1>1, <2>2, <3>3 DEF Shifted
      <4>2. Final("kbFocus", (j - 1) + 1)'
        BY <3>1, <4>1
      <4> QED BY <4>1, <4>2
    <3> QED BY <3>2, <3>3
  <2> QED BY <1>2, <2>1, <2>2 DEF ModsComeBack
<1>5. MapsComeBack'
  <2> SUFFICES ASSUME NEW r \in Resources
               PROVE  \/ keymap'[r] \in {seat'.keyboard, saved.keyboard}
                      \/ \E j \in 1..Len(todo') :
                            todo'[j].op = "keymap" /\ todo'[j].arg.resource = r
    BY DEF MapsComeBack, Resources
  <2>1. CASE keymap[r] \in {seat.keyboard, saved.keyboard}
    BY <1>1, <2>1
  <2>2. ASSUME NEW j \in 1..Len(todo), todo[j].op = "keymap", todo[j].arg.resource = r
        PROVE  \/ keymap'[r] \in {seat'.keyboard, saved.keyboard}
               \/ \E i \in 1..Len(todo') :
                     todo'[i].op = "keymap" /\ todo'[i].arg.resource = r
    <3>1. CASE j = 1
      BY <1>1, <2>2, <3>1
    <3>2. CASE j # 1
      <4>1. j - 1 \in 1..Len(todo') /\ todo'[j - 1] = todo[j]
        BY <1>1, <2>2, <3>2 DEF Shifted
      <4> QED BY <2>2, <4>1
    <3> QED BY <3>1, <3>2
  <2> QED BY <1>2, <2>1, <2>2 DEF MapsComeBack
<1>6. VerifyComes'
  <2>1. todo[Len(todo)].op = "verify"
    BY <1>1, <1>2 DEF VerifyComes
  <2>2. CASE Len(todo) = 1
    <3>1. Len(todo') = 0 /\ seat' = saved'
      BY <1>1, <2>1, <2>2 DEF Shifted
    <3>2. todo' = <<>>
      <4>1. todo' = Tail(todo) /\ todo \in Seq(RestoreCalls)
        BY <1>1, CallTaken DEF TypesOK, TodoOK
      <4> QED BY <1>1, <3>1, <4>1, TailAt, EmptyAt
    <3> QED BY <3>1, <3>2 DEF VerifyComes
  <2>3. CASE Len(todo) # 1
    <3>1. Len(todo') \in 1..Len(todo') /\ todo'[Len(todo')] = todo[Len(todo)]
      BY <1>1, <2>3 DEF Shifted
    <3>2. todo' # <<>>
      BY <3>1, EmptySeq
    <3> QED BY <2>1, <3>1, <3>2 DEF VerifyComes
  <2> QED BY <2>2, <2>3
<1> QED BY <1>3, <1>4, <1>5, <1>6
-----------------------------------------------------------------------------
(* One call, in the phase it belongs to.                                   *)

LEMMA SetSeatStep ==
    ASSUME BorrowingInv, SetSeat
    PROVE  BorrowingInv'
<1> DEFINE field == todo[1].arg.field
           value == todo[1].arg.value
<1>1. PICK threw \in BOOLEAN, done \in BOOLEAN :
          /\ After(threw)
          /\ seat' = IF done THEN [seat EXCEPT ![Arg.field] = Arg.value] ELSE seat
  BY DEF SetSeat
<1>2. /\ Head(todo).op = "set" /\ pressed' = pressed /\ held' = held /\ tx' = tx
      /\ saved' = saved /\ borrowed' = borrowed /\ textResources' = textResources
      /\ completed' = completed /\ holding' = holding /\ typed' = typed /\ reply' = reply
      /\ mods' = IF seat'.kbFocus = seat.kbFocus THEN mods ELSE "unknown"
      /\ keymap' = IF seat'.keyboard = seat.keyboard THEN keymap
                   ELSE [r \in Resources |-> seat'.keyboard]
  BY DEF SetSeat, Calling, localVars
<1>3. TypesOK /\ HumanOK /\ TargetOK /\ KnownOK /\ BorrowOK /\ RestoreOK
  BY DEF BorrowingInv
<1>4. /\ phase' = phase /\ phase \in {"borrow", "act", "cleanup", "restore"}
      /\ Head(todo) = todo[1] /\ Len(todo) >= 1 /\ Len(todo) \in Nat
      /\ phase = "borrow" => todo[1] \in BorrowCalls
      /\ phase = "act" => todo[1] \in ActCalls
      /\ phase = "cleanup" => todo[1] \in CleanupCalls
      /\ phase = "restore" => todo[1] \in RestoreCalls
      /\ failed' \in BOOLEAN /\ inputFaulted' \in BOOLEAN /\ TodoOK'
      /\ phase = "borrow" => inputFaulted' = inputFaulted
  <2>1. CASE threw
    BY <1>1, <1>2, <1>3, <2>1, CallTaken
  <2>2. CASE ~threw
    BY <1>1, <1>2, <1>3, <2>2, CallTaken
  <2> QED BY <2>1, <2>2
<1>5. /\ phase \in {"borrow", "restore"} /\ todo[1].op = "set"
      /\ field \in {"kbFocus", "keyboard", "mouse", "ptrFocus"}
      /\ field \in {"kbFocus", "ptrFocus"} => value \in Focuses
      /\ field \in {"keyboard", "mouse"} => value \in Devices
  <2>1. todo[1].op = "set" /\ phase # "act" /\ phase # "cleanup"
    BY <1>2, <1>4, ActCallIs, CleanupCallIs
  <2>2. CASE phase = "borrow"
    <3>1. tx.target \in Focuses /\ None \in Focuses /\ "agent" \in Devices
      BY <1>3 DEF TypesOK, Focuses, Requests, Devices
    <3> QED BY <1>4, <2>1, <2>2, <3>1, BorrowCallIs
  <2>3. CASE phase = "restore"
    <3>1. /\ saved.kbFocus \in Focuses /\ saved.ptrFocus \in Focuses /\ None \in Focuses
          /\ saved.keyboard \in Devices /\ saved.mouse \in Devices
      BY <1>3 DEF TypesOK, Focuses, Seats
    <3> QED BY <1>4, <2>1, <2>3, <3>1, RestoreCallIs
  <2> QED BY <1>4, <2>1, <2>2, <2>3
<1>6. seat \in Seats /\ seat' = IF done THEN [seat EXCEPT ![field] = value] ELSE seat
  BY <1>1, <1>3, <1>4 DEF TypesOK, Arg
<1> HIDE DEF field, value
<1>7. /\ seat' \in Seats
      /\ field # "kbFocus" => seat'.kbFocus = seat.kbFocus
      /\ field # "ptrFocus" => seat'.ptrFocus = seat.ptrFocus
      /\ field # "keyboard" => seat'.keyboard = seat.keyboard
      /\ seat.keyboard \in Devices /\ seat'.keyboard \in Devices
  <2>1. CASE done
    BY <1>5, <1>6, <2>1 DEF Seats
  <2>2. CASE ~done
    BY <1>6, <2>2 DEF Seats
  <2> QED BY <2>1, <2>2
<1>8. /\ SetsField(todo[1], "kbFocus") <=> field = "kbFocus"
      /\ SetsField(todo[1], "ptrFocus") <=> field = "ptrFocus"
      /\ SetsField(todo[1], "keyboard") <=> field = "keyboard"
  BY <1>5 DEF SetsField, field
<1>9. /\ keymap' \in [Resources -> Devices \cup {"text"}]
      /\ mods' \in {"human", "agent", "unknown"}
      /\ \A r \in Resources :
            \/ keymap'[r] = keymap[r] /\ seat'.keyboard = seat.keyboard
            \/ keymap'[r] = seat'.keyboard
  BY <1>2, <1>3, <1>7 DEF TypesOK
<1>10. TypesOK'
  BY <1>2, <1>3, <1>4, <1>7, <1>9
  DEF TypesOK, Theirs, Resources, Usable, IsPointer, Requests
<1>11. HumanOK'
  BY <1>2, <1>3, <1>4, <1>5 DEF HumanOK
<1>12. TargetOK'
  <2>1. "text" \notin Devices
    BY DEF Devices
  <2> QED BY <1>2, <1>3, <1>4, <1>5, <1>7, <1>9, <2>1 DEF TargetOK, Resources
<1>13. BorrowOK'
  <2>1. CASE phase = "borrow"
    <3>1. /\ todo[1] # Do("check", "text") /\ todo[1] # Do("check", "keyboard")
          /\ todo[1] # Do("check", "pointer")
      BY <1>5 DEF Do, Call
    <3> QED BY <1>1, <1>2, <1>3, <1>5, <1>7, <1>8, <2>1, <3>1, BorrowGoesOn
  <2> QED BY <1>4, <2>1 DEF BorrowOK
<1>14. KnownOK'
  <2>1. CASE phase = "borrow"
    <3>1. \A k \in {"key", "button"} : <<tx.target, k>> \in pressed' => k \in holding'
      BY <1>2, <1>3, <2>1 DEF KnownOK
    <3>2. \A r \in Resources \ textResources : keymap'[r] = seat'.keyboard
      BY <1>3, <1>9, <2>1 DEF KnownOK
    <3>3. field \in {"kbFocus", "keyboard"} => "keyboard" \in borrowed
      <4>1. ~Before(Do("local", "keyboard"), 1)
        BY DEF Before
      <4>2. field \in {"kbFocus", "keyboard"} =>
              "keyboard" \in borrowed \/ Before(Do("local", "keyboard"), 1)
        BY <1>3, <1>4, <1>8, <2>1 DEF BorrowOK
      <4> QED BY <4>1, <4>2
    <3> QED BY <1>2, <1>3, <1>4, <1>7, <2>1, <3>1, <3>2, <3>3 DEF KnownOK, Resources
  <2> QED BY <1>4, <1>5, <2>1 DEF KnownOK
<1>15. RestoreOK'
  <2>1. CASE phase = "restore"
    BY <1>1, <1>2, <1>3, <1>5, <1>7, <1>8, <1>9, <2>1, RestoreGoesOn
  <2> QED BY <1>4, <2>1 DEF RestoreOK
<1> QED
  BY <1>4, <1>5, <1>10, <1>11, <1>12, <1>13, <1>14, <1>15
  DEF BorrowingInv, Begun, ActOK, SeatGivenBack

LEMMA CheckStep ==
    ASSUME BorrowingInv, Check
    PROVE  BorrowingInv'
<1>1. PICK threw \in BOOLEAN :
          /\ (IF Arg = "pointer" THEN seat.ptrFocus ELSE seat.kbFocus) # tx.target => threw
          /\ After(threw)
          /\ textResources' = IF threw \/ Arg # "text" THEN textResources
                              ELSE {tx.target} \X (1..Keyboards)
  BY DEF Check
<1>2. /\ Head(todo).op = "check" /\ tx' = tx /\ saved' = saved /\ borrowed' = borrowed
      /\ completed' = completed /\ holding' = holding /\ typed' = typed /\ reply' = reply
      /\ seat' = seat /\ mods' = mods /\ keymap' = keymap /\ pressed' = pressed
      /\ held' = held
  BY DEF Check, Calling, worldVars
<1>3. TypesOK /\ HumanOK /\ TargetOK /\ KnownOK /\ BorrowOK /\ RestoreOK
  BY DEF BorrowingInv
<1>4. /\ phase' = phase /\ phase \in {"borrow", "act", "cleanup", "restore"}
      /\ Head(todo) = todo[1] /\ Len(todo) >= 1 /\ Len(todo) \in Nat
      /\ phase = "borrow" => todo[1] \in BorrowCalls
      /\ phase = "act" => todo[1] \in ActCalls
      /\ phase = "cleanup" => todo[1] \in CleanupCalls
      /\ phase = "restore" => todo[1] \in RestoreCalls
      /\ failed' \in BOOLEAN /\ inputFaulted' \in BOOLEAN /\ TodoOK'
      /\ phase = "borrow" => inputFaulted' = inputFaulted
  <2>1. CASE threw
    BY <1>1, <1>2, <1>3, <2>1, CallTaken
  <2>2. CASE ~threw
    BY <1>1, <1>2, <1>3, <2>2, CallTaken
  <2> QED BY <2>1, <2>2
<1>5. /\ phase = "borrow" /\ todo[1].op = "check" /\ Arg = todo[1].arg
      /\ todo[1] = Do("check", Arg) /\ Arg \in {"keyboard", "text", "pointer"}
  <2>1. phase = "borrow" /\ todo[1].op = "check"
    BY <1>2, <1>4, ActCallIs, CleanupCallIs, RestoreCallIs
  <2> QED BY <1>4, <2>1, BorrowCallIs DEF Arg
<1>6. /\ todo[1] = Do("check", "keyboard") => Arg = "keyboard"
      /\ todo[1] = Do("check", "pointer") => Arg = "pointer"
      /\ todo[1] = Do("check", "text") => Arg = "text"
  BY <1>5 DEF Do, Call
<1>7. /\ textResources' \in {textResources, Theirs}
      /\ ~threw /\ Arg = "text" => textResources' = Theirs
      /\ Arg # "text" => textResources' = textResources
      /\ textResources \in {{}, Theirs}
  BY <1>1, <1>3 DEF Theirs, TypesOK
<1>8. TypesOK'
  <2>1. Theirs' = Theirs
    BY <1>2, SameCalls
  <2>2. textResources' \in {{}, Theirs} /\ textResources' \subseteq Resources
    <3>1. Theirs \subseteq Resources
      BY <1>3, <1>4 DEF TypesOK, Theirs, Resources
    <3> QED BY <1>3, <1>7, <3>1 DEF TypesOK
  <2> QED BY <1>2, <1>3, <1>4, <2>1, <2>2 DEF TypesOK, Resources, Usable, IsPointer, Requests
<1>9. HumanOK' /\ TargetOK'
  BY <1>2, <1>3, <1>4, <1>5 DEF HumanOK, TargetOK, Resources
<1>10. BorrowOK'
  <2>1. /\ ~threw /\ Arg = "keyboard" => seat.kbFocus = tx.target
        /\ ~threw /\ Arg = "pointer" => seat.ptrFocus = tx.target
    BY <1>1
  <2>2. todo[1].op # "local"
    BY <1>5
  <2> QED BY <1>1, <1>2, <1>3, <1>5, <1>6, <1>7, <2>1, <2>2, BorrowGoesOn
<1>11. KnownOK'
  <2>1. Arg = "text" => "keyboard" \in borrowed
    <3>1. ~Before(Do("local", "keyboard"), 1)
      BY DEF Before
    <3>2. todo[1] = Do("check", "text") =>
            "keyboard" \in borrowed \/ Before(Do("local", "keyboard"), 1)
      BY <1>3, <1>4, <1>5 DEF BorrowOK
    <3> QED BY <1>5, <3>1, <3>2
  <2> QED BY <1>2, <1>3, <1>4, <1>5, <1>7, <2>1 DEF KnownOK, Resources
<1> QED
  BY <1>4, <1>5, <1>8, <1>9, <1>10, <1>11
  DEF BorrowingInv, Begun, ActOK, SeatGivenBack, RestoreOK

LEMMA SetLocalStep ==
    ASSUME BorrowingInv, SetLocal
    PROVE  BorrowingInv'
<1>1. /\ After(FALSE) /\ Head(todo).op = "local" /\ tx' = tx /\ saved' = saved
      /\ borrowed' = borrowed \cup ({Arg} \cap {"keyboard", "pointer"})
      /\ holding' = IF Arg = "released" THEN holding \ {"gesture"} ELSE holding
      /\ textResources' = textResources /\ reply' = reply
      /\ seat' = seat /\ mods' = mods /\ keymap' = keymap /\ pressed' = pressed
      /\ held' = held
  BY DEF SetLocal, Calling, worldVars
<1>2. TypesOK /\ HumanOK /\ TargetOK /\ KnownOK /\ BorrowOK /\ ActOK
  BY DEF BorrowingInv
<1>3. FALSE \in BOOLEAN
  OBVIOUS
<1>4. /\ phase' = phase /\ phase \in {"borrow", "act", "cleanup", "restore"}
      /\ Head(todo) = todo[1]
      /\ phase = "borrow" => todo[1] \in BorrowCalls
      /\ phase = "act" => todo[1] \in ActCalls
      /\ phase = "cleanup" => todo[1] \in CleanupCalls
      /\ phase = "restore" => todo[1] \in RestoreCalls
      /\ failed' \in BOOLEAN /\ inputFaulted' \in BOOLEAN /\ TodoOK'
      /\ inputFaulted' = inputFaulted
  BY <1>1, <1>2, <1>3, CallTaken
<1>5. /\ phase \in {"borrow", "act"} /\ todo[1].op = "local" /\ Arg = todo[1].arg
      /\ phase = "borrow" => Arg \in {"keyboard", "pointer"}
  <2>1. phase \in {"borrow", "act"} /\ todo[1].op = "local"
    BY <1>1, <1>4, CleanupCallIs, RestoreCallIs
  <2> QED BY <1>4, <2>1, BorrowCallIs DEF Arg
<1>6. TypesOK'
  <2>1. Theirs' = Theirs
    BY <1>1, SameCalls
  <2> QED BY <1>1, <1>2, <1>4, <2>1 DEF TypesOK, Resources, Usable, IsPointer, Requests
<1>7. HumanOK' /\ TargetOK'
  BY <1>1, <1>2, <1>4, <1>5 DEF HumanOK, TargetOK, Resources
<1>8. BorrowOK'
  <2>1. CASE phase = "borrow"
    <3>1. /\ todo[1] # Do("check", "text") /\ todo[1] # Do("check", "keyboard")
          /\ todo[1] # Do("check", "pointer")
      BY <1>5 DEF Do, Call
    <3>2. todo[1].arg \in borrowed'
      <4>1. Arg \in borrowed'
        BY <1>1, <1>5, <2>1
      <4> QED BY <1>5, <4>1
    <3> QED BY <1>1, <1>2, <1>3, <2>1, <3>1, <3>2, BorrowGoesOn
  <2> QED BY <1>4, <2>1 DEF BorrowOK
<1>9. KnownOK' /\ ActOK'
  <2>1. NeedsKeyboard' = NeedsKeyboard /\ IsPointer(tx)' = IsPointer(tx)
    BY <1>1, SameCalls DEF IsPointer
  <2>2. borrowed \subseteq borrowed' /\ \A k \in {"key", "button"} : k \in holding => k \in holding'
    BY <1>1
  <2> QED BY <1>1, <1>2, <1>4, <2>1, <2>2 DEF KnownOK, ActOK, Resources
<1> QED
  BY <1>4, <1>5, <1>6, <1>7, <1>8, <1>9
  DEF BorrowingInv, Begun, SeatGivenBack, RestoreOK

LEMMA SendStep ==
    ASSUME BorrowingInv, Send
    PROVE  BorrowingInv'
<1> DEFINE op == todo[1].op
           arg == todo[1].arg
           key == <<tx.target, "key">>
           button == <<tx.target, "button">>
<1>1. PICK threw \in BOOLEAN, done \in BOOLEAN :
          /\ threw \/ done
          /\ After(threw)
          /\ \/ SendKeymap(threw, done)
             \/ SendMods(threw, done)
             \/ SendPress("key", seat.kbFocus, threw, done)
             \/ SendPress("button", seat.ptrFocus, threw, done)
             \/ SendEvent(threw, done)
  BY DEF Send
<1>2. /\ tx' = tx /\ saved' = saved /\ borrowed' = borrowed /\ textResources' = textResources
      /\ reply' = reply /\ seat' = seat /\ held' = held
  BY DEF Send, localVars
<1>3. TypesOK /\ HumanOK /\ TargetOK /\ KnownOK /\ BorrowOK /\ ActOK /\ RestoreOK
  BY DEF BorrowingInv
<1>4. /\ phase' = phase /\ phase \in {"borrow", "act", "cleanup", "restore"}
      /\ Head(todo) = todo[1] /\ Len(todo) >= 1 /\ Len(todo) \in Nat
      /\ phase = "borrow" => todo[1] \in BorrowCalls
      /\ phase = "act" => todo[1] \in ActCalls
      /\ phase = "cleanup" => todo[1] \in CleanupCalls
      /\ phase = "restore" => todo[1] \in RestoreCalls
      /\ failed' \in BOOLEAN /\ inputFaulted' \in BOOLEAN /\ TodoOK'
      /\ phase \in {"borrow", "act"} => inputFaulted' = inputFaulted
  <2>1. CASE threw
    BY <1>1, <1>2, <1>3, <2>1, CallTaken
  <2>2. CASE ~threw
    BY <1>1, <1>2, <1>3, <2>2, CallTaken
  <2> QED BY <2>1, <2>2
<1>5. /\ Arg = arg /\ op \in {"keymap", "mods", "key", "button", "event"}
      /\ op = "keymap" <=> SendKeymap(threw, done)
      /\ op = "mods" <=> SendMods(threw, done)
      /\ op = "key" <=> SendPress("key", seat.kbFocus, threw, done)
      /\ op = "button" <=> SendPress("button", seat.ptrFocus, threw, done)
      /\ op = "event" <=> SendEvent(threw, done)
  BY <1>1, <1>4 DEF Calling, Arg, SendKeymap, SendMods, SendPress, SendEvent
<1>6. /\ phase = "borrow" => op = "keymap" /\ arg.map = "text" /\ arg.resource \in Theirs
      /\ phase = "act" => op # "keymap"
      /\ phase = "cleanup" => op \notin {"keymap", "key"}
      /\ phase = "restore" /\ op = "keymap" =>
            arg.map = saved.keyboard /\ arg.resource \in Theirs
      /\ phase = "restore" /\ op = "mods" => arg = "human"
      /\ phase \in {"act", "cleanup"} /\ op = "mods" => arg = "agent" /\ NeedsKeyboard
      /\ op \in {"key", "button"} => arg \in {"down", "up"}
      /\ phase # "act" /\ op \in {"key", "button"} => arg = "up"
      /\ phase = "act" /\ op = "key" => ~IsPointer(tx)
      /\ phase = "act" /\ op = "button" => IsPointer(tx)
  BY <1>4, <1>5, BorrowCallIs, ActCallIs, CleanupCallIs, RestoreCallIs
<1>7. /\ saved.keyboard \in Devices /\ seat.keyboard \in Devices /\ Theirs \subseteq Resources
      /\ "text" \notin Devices /\ held = {}
  BY <1>3, <1>4 DEF TypesOK, Seats, Theirs, Resources, Devices, HumanOK
<1> HIDE DEF op, arg
<1>8. /\ keymap' \in [Resources -> Devices \cup {"text"}]
      /\ \A r \in Resources : \/ keymap'[r] = keymap[r]
                              \/ op = "keymap" /\ r = arg.resource /\ keymap'[r] = arg.map
      /\ op = "keymap" /\ ~threw => keymap'[arg.resource] = arg.map
      /\ op # "keymap" => keymap' = keymap
  <2>1. CASE op = "keymap"
    <3>1. keymap' = IF done THEN [keymap EXCEPT ![arg.resource] = arg.map] ELSE keymap
      BY <1>5, <2>1 DEF SendKeymap
    <3>2. arg.resource \in Resources /\ arg.map \in Devices \cup {"text"}
      BY <1>4, <1>6, <1>7, <2>1
    <3>3. keymap \in [Resources -> Devices \cup {"text"}]
      BY <1>3 DEF TypesOK
    <3>4. CASE done
      BY <2>1, <3>1, <3>2, <3>3, <3>4
    <3>5. CASE ~done
      BY <1>1, <3>1, <3>3, <3>5
    <3> QED BY <3>4, <3>5
  <2>2. CASE op # "keymap"
    <3>1. keymap' = keymap
      BY <1>5, <2>2 DEF SendMods, SendPress, SendEvent
    <3> QED BY <1>3, <2>2, <3>1 DEF TypesOK
  <2> QED BY <2>1, <2>2
<1>9. /\ mods' = mods \/ (op = "mods" /\ mods' = arg)
      /\ op = "mods" /\ ~threw => mods' = arg
  <2>1. CASE op = "mods"
    BY <1>1, <1>5, <2>1 DEF SendMods
  <2>2. CASE op # "mods"
    BY <1>5, <2>2 DEF SendKeymap, SendPress, SendEvent
  <2> QED BY <2>1, <2>2
<1>10. ASSUME NEW k \in {"key", "button"}, NEW focus, SendPress(k, focus, threw, done),
              arg \in {"down", "up"}
       PROVE  /\ pressed' \subseteq pressed \cup {<<focus, k>>} /\ pressed' \subseteq Pressable
              /\ arg = "up" => pressed' \subseteq pressed
              /\ arg = "up" /\ ~threw => <<focus, k>> \notin pressed'
              /\ arg = "down" => k \in holding'
              /\ holding \ {k} \subseteq holding'
              /\ arg = "up" /\ threw => holding' = holding
              /\ holding' \subseteq {"key", "button", "gesture"}
  <2>1. /\ pressed' = IF ~done THEN pressed
                      ELSE IF arg = "down" THEN pressed \cup ({<<focus, k>>} \cap Pressable)
                      ELSE pressed \ {<<focus, k>>}
        /\ holding' = IF arg = "down"
                      THEN holding \cup (IF k = "key" THEN {k} ELSE {k, "gesture"})
                      ELSE IF threw THEN holding ELSE holding \ {k}
        /\ pressed \subseteq Pressable /\ holding \subseteq {"key", "button", "gesture"}
    BY <1>3, <1>5, <1>10 DEF SendPress, TypesOK
  <2>2. CASE arg = "down"
    BY <2>1, <2>2
  <2>3. CASE arg = "up"
    BY <1>1, <2>1, <2>3
  <2> QED BY <1>10, <2>2, <2>3
<1>11. op \notin {"key", "button"} => pressed' = pressed /\ holding' = holding
  BY <1>5 DEF SendKeymap, SendMods, SendEvent
<1>12. /\ op = "key" => \A e \in pressed' \ pressed : e = <<seat.kbFocus, "key">>
       /\ op = "button" => \A e \in pressed' \ pressed : e = <<seat.ptrFocus, "button">>
       /\ op = "key" /\ arg = "up" /\ ~threw => <<seat.kbFocus, "key">> \notin pressed'
       /\ op = "button" /\ arg = "up" /\ ~threw => <<seat.ptrFocus, "button">> \notin pressed'
       /\ op = "key" /\ arg = "down" => "key" \in holding'
       /\ op = "button" /\ arg = "down" => "button" \in holding'
       /\ arg = "up" => pressed' \subseteq pressed
       /\ op # "key" /\ "key" \in holding => "key" \in holding'
       /\ op # "button" /\ "button" \in holding => "button" \in holding'
       /\ op \in {"key", "button"} /\ arg = "up" /\ threw => holding' = holding
       /\ pressed' \subseteq Pressable /\ holding' \subseteq {"key", "button", "gesture"}
  <2>1. CASE op = "key"
    BY <1>5, <1>6, <1>10, <2>1
  <2>2. CASE op = "button"
    BY <1>5, <1>6, <1>10, <2>2
  <2>3. CASE op \notin {"key", "button"}
    BY <1>3, <1>11, <2>3 DEF TypesOK
  <2> QED BY <2>1, <2>2, <2>3
<1>13. /\ op # "key" => (key \in pressed' => key \in pressed)
       /\ op # "button" => (button \in pressed' => button \in pressed)
  <2>1. CASE op = "key"
    BY <1>12, <2>1
  <2>2. CASE op = "button"
    BY <1>12, <2>2
  <2>3. CASE op \notin {"key", "button"}
    BY <1>11, <2>3
  <2> QED BY <2>1, <2>2, <2>3
<1>14. TypesOK'
  <2>1. Theirs' = Theirs
    BY <1>2, SameCalls
  <2>2. mods' \in {"human", "agent", "unknown"}
    BY <1>3, <1>4, <1>6, <1>9 DEF TypesOK
  <2> QED
    BY <1>2, <1>3, <1>4, <1>7, <1>8, <1>12, <2>1, <2>2
    DEF TypesOK, Resources, Usable, IsPointer, Requests, Pressable
<1>15. HumanOK'
  BY <1>2, <1>3, <1>4, <1>7 DEF HumanOK
<1>16. TargetOK'
  <2>1. pressed' \subseteq {key, button}
    <3>1. pressed \subseteq {key, button}
      BY <1>3, <1>4 DEF TargetOK
    <3>2. CASE op = "key" /\ arg = "down"
      <4>1. seat.kbFocus = tx.target
        BY <1>3, <1>4, <1>6, <3>2 DEF ActOK, NeedsKeyboard
      <4> QED BY <1>12, <3>1, <3>2, <4>1
    <3>3. CASE op = "button" /\ arg = "down"
      <4>1. seat.ptrFocus = tx.target
        BY <1>3, <1>4, <1>6, <3>3 DEF ActOK
      <4> QED BY <1>12, <3>1, <3>3, <4>1
    <3>4. CASE op \notin {"key", "button"} \/ arg = "up"
      BY <1>11, <1>12, <3>1, <3>4
    <3> QED BY <1>6, <3>2, <3>3, <3>4
  <2>2. \A r \in Resources : keymap'[r] = "text" => r[1] = tx.target
    <3>1. \A r \in Theirs : r[1] = tx.target
      BY DEF Theirs
    <3> QED BY <1>3, <1>4, <1>6, <1>7, <1>8, <3>1 DEF TargetOK
  <2> QED BY <1>2, <2>1, <2>2 DEF TargetOK, Resources
<1>17. KnownOK'
  <2> SUFFICES ASSUME phase \in {"borrow", "act", "cleanup"}
               PROVE  /\ key \in pressed' => "key" \in holding'
                      /\ button \in pressed' => "button" \in holding'
                      /\ \A r \in Resources \ textResources : keymap'[r] = seat.keyboard
                      /\ "keyboard" \notin borrowed =>
                            /\ textResources = {}
                            /\ seat.kbFocus = saved.kbFocus
                            /\ seat.kbFocus # None => mods' = "human"
    BY <1>2, <1>4 DEF KnownOK, Resources
  <2>1. /\ key \in pressed => "key" \in holding
        /\ button \in pressed => "button" \in holding
        /\ \A r \in Resources \ textResources : keymap[r] = seat.keyboard
        /\ "keyboard" \notin borrowed =>
              /\ textResources = {}
              /\ seat.kbFocus = saved.kbFocus
              /\ seat.kbFocus # None => mods = "human"
    BY <1>3 DEF KnownOK
  <2>2. ASSUME key \in pressed' PROVE "key" \in holding'
    <3>1. CASE op # "key"
      BY <1>12, <1>13, <2>1, <2>2, <3>1
    <3>2. CASE op = "key" /\ arg = "down"
      BY <1>12, <3>2
    <3>3. CASE op = "key" /\ arg = "up"
      <4>1. key \in pressed /\ phase = "act"
        BY <1>6, <1>12, <2>2, <3>3
      <4>2. seat.kbFocus = tx.target
        BY <1>3, <1>6, <3>3, <4>1 DEF ActOK, NeedsKeyboard
      <4> QED BY <1>12, <2>1, <2>2, <3>3, <4>1, <4>2
    <3> QED BY <1>6, <3>1, <3>2, <3>3
  <2>3. ASSUME button \in pressed' PROVE "button" \in holding'
    <3>1. CASE op # "button"
      BY <1>12, <1>13, <2>1, <2>3, <3>1
    <3>2. CASE op = "button" /\ arg = "down"
      BY <1>12, <3>2
    <3>3. CASE op = "button" /\ arg = "up"
      <4>1. button \in pressed /\ phase \in {"act", "cleanup"}
        BY <1>6, <1>12, <2>3, <3>3
      <4>2. seat.ptrFocus = tx.target
        BY <1>3, <4>1 DEF ActOK
      <4> QED BY <1>12, <2>1, <2>3, <3>3, <4>1, <4>2
    <3> QED BY <1>6, <3>1, <3>2, <3>3
  <2>4. \A r \in Resources \ textResources : keymap'[r] = seat.keyboard
    <3>1. op = "keymap" => arg.resource \in textResources
      <4> SUFFICES ASSUME op = "keymap" PROVE arg.resource \in textResources
        OBVIOUS
      <4>1. phase = "borrow" /\ arg.resource \in Theirs
        BY <1>6
      <4>2. ~Before(Do("check", "text"), 1)
        BY DEF Before
      <4>3. textResources = Theirs \/ Before(Do("check", "text"), 1)
        BY <1>3, <1>4, <4>1 DEF BorrowOK, op
      <4> QED BY <4>1, <4>2, <4>3
    <3> QED BY <1>8, <2>1, <3>1
  <2>5. "keyboard" \notin borrowed => op # "mods"
    BY <1>3, <1>6 DEF ActOK
  <2> QED BY <1>9, <2>1, <2>2, <2>3, <2>4, <2>5
<1>18. BorrowOK'
  <2>1. CASE phase = "borrow"
    <3>1. /\ todo[1].op = "keymap" /\ todo[1] # Do("check", "text")
          /\ todo[1] # Do("check", "keyboard") /\ todo[1] # Do("check", "pointer")
      BY <1>6, <2>1 DEF Do, Call, op
    <3>2. pressed' = pressed /\ todo[1].op # "local"
      BY <1>6, <1>11, <2>1, <3>1
    <3> QED BY <1>1, <1>2, <1>3, <2>1, <3>1, <3>2, BorrowGoesOn
  <2> QED BY <1>4, <2>1 DEF BorrowOK
<1>19. ActOK'
  <2> SUFFICES ASSUME phase \in {"act", "cleanup"}
               PROVE  /\ key \in pressed' => ~IsPointer(tx)
                      /\ button \in pressed' => IsPointer(tx)
    BY <1>2, <1>3, <1>4 DEF ActOK, NeedsKeyboard, IsPointer
  <2> QED BY <1>3, <1>6, <1>12, <1>13 DEF ActOK
<1>20. RestoreOK'
  <2>1. CASE phase = "restore"
    <3>1. pressed' \subseteq pressed
      BY <1>6, <1>11, <1>12, <2>1
    <3>2. /\ ~threw /\ op = "key" /\ seat.kbFocus = tx.target => key \notin pressed'
          /\ ~threw /\ op = "button" /\ seat.ptrFocus = tx.target => button \notin pressed'
      BY <1>6, <1>12, <2>1
    <3>3. /\ ~threw /\ op # "mods" => mods' = mods
          /\ ~threw /\ op = "mods" => mods' = "human"
      BY <1>6, <1>9, <2>1
    <3>4. /\ \A r \in Resources : keymap'[r] = keymap[r] \/ keymap'[r] = saved.keyboard
          /\ ~threw /\ op = "keymap" => keymap'[arg.resource] = saved.keyboard
      BY <1>6, <1>8, <2>1
    <3>5. op # "verify"
      BY <1>5
    <3> QED
      BY <1>1, <1>2, <1>3, <2>1, <3>1, <3>2, <3>3, <3>4, <3>5, RestoreGoesOn DEF op, arg
  <2> QED BY <1>4, <2>1 DEF RestoreOK
<1> QED
  BY <1>4, <1>14, <1>15, <1>16, <1>17, <1>18, <1>19, <1>20
  DEF BorrowingInv, Begun, SeatGivenBack

LEMMA VerifyStep ==
    ASSUME BorrowingInv, Verify
    PROVE  BorrowingInv'
<1>1. /\ todo # <<>> /\ Head(todo).op = "verify" /\ todo' = Tail(todo) /\ phase' = phase
      /\ failed' = failed /\ inputFaulted' = (inputFaulted \/ seat # saved)
      /\ tx' = tx /\ saved' = saved /\ borrowed' = borrowed /\ textResources' = textResources
      /\ holding' = holding /\ reply' = reply /\ seat' = seat /\ mods' = mods
      /\ keymap' = keymap /\ pressed' = pressed /\ held' = held
  BY DEF Verify, Calling, localVars, worldVars
<1>2. TypesOK /\ HumanOK /\ TargetOK /\ RestoreOK
  BY DEF BorrowingInv
<1>3. phase = "restore" /\ Head(todo) = todo[1] /\ todo[1].op = "verify" /\ TodoOK'
  <2>1. phase \in {"borrow", "act", "cleanup", "restore"}
    BY <1>1, <1>2 DEF TypesOK, TodoOK
  <2>2. ~(phase = "borrow")
    <3> SUFFICES ASSUME phase = "borrow" PROVE FALSE
      OBVIOUS
    <3>1. todo \in Seq(BorrowCalls)
      BY <1>2 DEF TypesOK, TodoOK
    <3>2. Head(todo) \in BorrowCalls
      BY <1>1, <3>1, TailAt
    <3> QED BY <1>1, <3>2, BorrowCallIs
  <2>3. ~(phase = "act")
    <3> SUFFICES ASSUME phase = "act" PROVE FALSE
      OBVIOUS
    <3>1. todo \in Seq(ActCalls)
      BY <1>2 DEF TypesOK, TodoOK
    <3>2. Head(todo) \in ActCalls
      BY <1>1, <3>1, TailAt
    <3> QED BY <1>1, <3>2, ActCallIs
  <2>4. ~(phase = "cleanup")
    <3> SUFFICES ASSUME phase = "cleanup" PROVE FALSE
      OBVIOUS
    <3>1. todo \in Seq(CleanupCalls)
      BY <1>2 DEF TypesOK, TodoOK
    <3>2. Head(todo) \in CleanupCalls
      BY <1>1, <3>1, TailAt
    <3> QED BY <1>1, <3>2, CleanupCallIs
  <2>5. phase = "restore"
    BY <2>1, <2>2, <2>3, <2>4
  <2>6. todo \in Seq(RestoreCalls)
    BY <1>2, <2>5 DEF TypesOK, TodoOK
  <2>7. Head(todo) = todo[1] /\ todo' \in Seq(RestoreCalls)
    BY <1>1, <2>6, TailAt
  <2>8. RestoreCalls' = RestoreCalls
    BY <1>1, SameCalls
  <2> QED BY <1>1, <2>5, <2>7, <2>8 DEF TodoOK
<1>4. TypesOK'
  <2>1. Theirs' = Theirs /\ inputFaulted' \in BOOLEAN
    BY <1>1, <1>2, SameCalls DEF TypesOK
  <2> QED BY <1>1, <1>2, <1>3, <2>1 DEF TypesOK, Resources, Usable, IsPointer, Requests
<1>5. HumanOK' /\ TargetOK'
  BY <1>1, <1>2, <1>3 DEF HumanOK, TargetOK, Resources
<1>6. RestoreOK'
  <2> SUFFICES ASSUME ~inputFaulted' PROVE RestoreOK'
    BY DEF RestoreOK
  <2>1. seat = saved /\ ~inputFaulted
    BY <1>1
  <2>2. After(FALSE)
    BY <1>1, <1>2, <2>1 DEF After, Fault, TypesOK
  <2>3. FALSE \in BOOLEAN
    OBVIOUS
  <2> QED BY <1>1, <1>2, <1>3, <2>1, <2>2, <2>3, RestoreGoesOn
<1> QED
  BY <1>1, <1>3, <1>4, <1>5, <1>6
  DEF BorrowingInv, Begun, BorrowOK, KnownOK, ActOK, SeatGivenBack
-----------------------------------------------------------------------------
(* Between transactions.                                                   *)

LEMMA InitInv == Init => BorrowingInv
<1> SUFFICES ASSUME Init PROVE BorrowingInv
  OBVIOUS
<1>1. None \in Focuses /\ "human" \in Devices
  BY DEF Focuses, Devices
<1>2. seat \in Seats
  BY <1>1 DEF Init, Seats
<1>3. tx \in Requests /\ Usable(tx) /\ ~tx.mods
  BY <1>1 DEF Init, Requests, Usable, IsPointer, Kinds
<1>4. keymap \in [Resources -> Devices \cup {"text"}] /\ \A r \in Resources : keymap[r] = "human"
  BY <1>1 DEF Init
<1>5. TypesOK
  BY <1>2, <1>3, <1>4 DEF Init, TypesOK, TodoOK
<1> QED
  BY <1>4, <1>5
  DEF Init, BorrowingInv, HumanOK, TargetOK, KnownOK, Begun, BorrowOK, ActOK, RestoreOK,
      SeatGivenBack

LEMMA BeginStep ==
    ASSUME BorrowingInv, NEW q \in Requests, q.target \in Surfaces, Begin(q)
    PROVE  BorrowingInv'
<1>1. /\ phase = "idle" /\ Usable(q) /\ ~inputFaulted /\ held = {} /\ phase' = "begun"
      /\ tx' = q /\ saved' = seat /\ borrowed' = {} /\ holding' = {} /\ textResources' = {}
      /\ failed' = FALSE /\ reply' = "none" /\ seat' = seat /\ mods' = mods
      /\ keymap' = keymap /\ pressed' = pressed /\ held' = held /\ todo' = todo
      /\ inputFaulted' = inputFaulted
  BY DEF Begin, IdleInput, worldVars
<1>2. TypesOK /\ SeatGivenBack
  BY DEF BorrowingInv
<1>3. /\ pressed = {}
      /\ seat.kbFocus # None => mods = "human"
      /\ \A r \in Resources : keymap[r] = seat.keyboard
  BY <1>1, <1>2 DEF SeatGivenBack
<1>4. seat.keyboard # "text"
  BY <1>2 DEF TypesOK, Seats, Devices
<1>5. TypesOK'
  <2>1. todo' = <<>> /\ TodoOK'
    BY <1>1, <1>2 DEF TypesOK, TodoOK
  <2>2. Usable(tx)'
    BY <1>1 DEF Usable, IsPointer
  <2> QED BY <1>1, <1>2, <2>1, <2>2 DEF TypesOK, Resources
<1> QED
  BY <1>1, <1>3, <1>4, <1>5
  DEF BorrowingInv, HumanOK, TargetOK, KnownOK, Begun, BorrowOK, ActOK, RestoreOK,
      SeatGivenBack, Resources

(* What restore() has left without a fault is the seat as it was. *)
LEMMA ReturnStep ==
    ASSUME BorrowingInv, Return
    PROVE  BorrowingInv'
<1>1. /\ phase = "restore" /\ todo = <<>> /\ phase' = "idle" /\ todo' = todo
      /\ reply' \in {"error", "ok"} /\ failed' = failed /\ inputFaulted' = inputFaulted
      /\ tx' = tx /\ saved' = saved /\ borrowed' = borrowed /\ textResources' = textResources
      /\ holding' = holding /\ seat' = seat /\ mods' = mods
      /\ keymap' = keymap /\ pressed' = pressed /\ held' = held
  BY DEF Return, localVars, worldVars
<1>2. TypesOK /\ HumanOK /\ TargetOK /\ RestoreOK
  BY DEF BorrowingInv
<1>3. TypesOK'
  <2>1. TodoOK'
    BY <1>1 DEF TodoOK
  <2>2. Theirs' = Theirs
    BY <1>1, SameCalls
  <2> QED BY <1>1, <1>2, <2>1, <2>2 DEF TypesOK, Resources, Usable, IsPointer
<1>4. HumanOK'
  BY <1>1, <1>2 DEF HumanOK
<1>5. SeatGivenBack'
  <2> SUFFICES ASSUME ~inputFaulted
               PROVE  /\ pressed = held
                      /\ seat.kbFocus # None => mods = "human"
                      /\ \A r \in Resources : keymap[r] = seat.keyboard
    BY <1>1 DEF SeatGivenBack, Resources
  <2>1. KeysComeUp /\ ModsComeBack /\ MapsComeBack /\ VerifyComes /\ Len(todo) = 0
    BY <1>1, <1>2, EmptySeq DEF RestoreOK
  <2>2. seat = saved
    BY <1>1, <2>1 DEF VerifyComes
  <2>3. pressed = {}
    <3>1. /\ <<tx.target, "key">> \notin pressed /\ <<tx.target, "button">> \notin pressed
      BY <1>1, <2>1 DEF KeysComeUp
    <3> QED BY <1>1, <1>2, <3>1 DEF TargetOK
  <2>4. held = {}
    BY <1>1, <1>2 DEF HumanOK
  <2>5. seat.kbFocus # None => mods = "human"
    BY <2>1, <2>2 DEF ModsComeBack
  <2>6. \A r \in Resources : keymap[r] = seat.keyboard
    BY <2>1, <2>2 DEF MapsComeBack
  <2> QED BY <2>3, <2>4, <2>5, <2>6
<1> QED
  BY <1>1, <1>3, <1>4, <1>5
  DEF BorrowingInv, TargetOK, KnownOK, Begun, BorrowOK, ActOK, RestoreOK

LEMMA HumanStep ==
    ASSUME BorrowingInv,
           \/ \E s \in Seats : HumanMoves(s)
           \/ \E h \in Pressable : HumanPresses(h) \/ HumanReleases(h)
    PROVE  BorrowingInv'
<1>1. TypesOK /\ HumanOK /\ SeatGivenBack
  BY DEF BorrowingInv
<1>2. /\ phase = "idle" /\ phase' = "idle" /\ todo' = todo /\ tx' = tx /\ saved' = saved
      /\ borrowed' = borrowed /\ textResources' = textResources /\ holding' = holding
      /\ failed' = failed /\ inputFaulted' = inputFaulted /\ reply' = reply
  BY DEF HumanMoves, HumanPresses, HumanReleases, txVars, localVars
<1>3. /\ seat' \in Seats /\ mods' \in {"human", "agent", "unknown"}
      /\ keymap' \in [Resources -> Devices \cup {"text"}]
      /\ held' \subseteq pressed' /\ pressed' \subseteq Pressable
      /\ HumanOK' /\ SeatGivenBack'
  <2>1. ASSUME NEW s \in Seats, HumanMoves(s)
        PROVE  /\ seat' \in Seats /\ mods' \in {"human", "agent", "unknown"}
               /\ keymap' \in [Resources -> Devices \cup {"text"}]
               /\ held' \subseteq pressed' /\ pressed' \subseteq Pressable
               /\ HumanOK' /\ SeatGivenBack'
    <3>1. /\ seat' = s /\ mods' = "human" /\ keymap' = [r \in Resources |-> s.keyboard]
          /\ pressed' = pressed /\ held' = held /\ held = {} /\ s.keyboard \in Devices
      BY <2>1 DEF HumanMoves, Seats
    <3> QED BY <1>1, <1>2, <3>1 DEF TypesOK, HumanOK, SeatGivenBack, Resources
  <2>2. ASSUME NEW h \in Pressable, HumanPresses(h) \/ HumanReleases(h)
        PROVE  /\ seat' \in Seats /\ mods' \in {"human", "agent", "unknown"}
               /\ keymap' \in [Resources -> Devices \cup {"text"}]
               /\ held' \subseteq pressed' /\ pressed' \subseteq Pressable
               /\ HumanOK' /\ SeatGivenBack'
    <3>1. /\ seat' = seat /\ mods' = mods /\ keymap' = keymap
          /\ \/ /\ h \in {<<seat.kbFocus, "key">>, <<seat.ptrFocus, "button">>}
                /\ pressed' = pressed \cup {h} /\ held' = held \cup {h}
             \/ h \in held /\ pressed' = pressed \ {h} /\ held' = held \ {h}
      BY <2>2 DEF HumanPresses, HumanReleases
    <3>2. HumanOK'
      BY <1>1, <1>2, <3>1 DEF HumanOK
    <3>3. SeatGivenBack'
      BY <1>1, <1>2, <3>1 DEF SeatGivenBack, Resources
    <3>4. held' \subseteq pressed' /\ pressed' \subseteq Pressable
      BY <1>1, <3>1 DEF TypesOK
    <3> QED BY <1>1, <3>1, <3>2, <3>3, <3>4 DEF TypesOK
  <2> QED BY <2>1, <2>2
<1>4. TypesOK'
  <2>1. TodoOK'
    BY <1>1, <1>2 DEF TypesOK, TodoOK
  <2>2. Theirs' = Theirs
    BY <1>2, SameCalls
  <2> QED BY <1>1, <1>2, <1>3, <2>1, <2>2 DEF TypesOK, Resources, Usable, IsPointer
<1> QED
  BY <1>2, <1>3, <1>4
  DEF BorrowingInv, TargetOK, KnownOK, Begun, BorrowOK, ActOK, RestoreOK
-----------------------------------------------------------------------------
(* The scripts.                                                            *)

LEMMA ShortSeqs ==
    ASSUME NEW S
    PROVE  /\ <<>> \in Seq(S) /\ Len(<<>>) = 0
           /\ \A a \in S : <<a>> \in Seq(S) /\ Len(<<a>>) = 1 /\ <<a>>[1] = a
           /\ \A a, b \in S : <<a, b>> \in Seq(S) /\ Len(<<a, b>>) = 2
           /\ \A a, b, c \in S : <<a, b, c>> \in Seq(S) /\ Len(<<a, b, c>>) = 3
           /\ \A a, b, c, d \in S : <<a, b, c, d>> \in Seq(S) /\ Len(<<a, b, c, d>>) = 4
           /\ \A a, b, c, d, e \in S :
                 <<a, b, c, d, e>> \in Seq(S) /\ Len(<<a, b, c, d, e>>) = 5
OBVIOUS

LEMMA BorrowScriptIs ==
    ASSUME tx \in Requests, Usable(tx)
    PROVE  LET s == BorrowScript
               nk == IF NeedsKeyboard THEN 5 ELSE 0
               nt == IF tx.kind = "text" THEN 1 + Keyboards ELSE 0
               np == IF IsPointer(tx) THEN 4 ELSE 0
           IN  /\ s \in Seq(BorrowCalls) /\ Len(s) = nk + nt + np
               /\ NeedsKeyboard =>
                     /\ s[1] = Do("local", "keyboard") /\ s[2] = Set("kbFocus", None)
                     /\ s[3] = Set("keyboard", "agent") /\ s[4] = Set("kbFocus", tx.target)
                     /\ s[5] = Do("check", "keyboard")
               /\ tx.kind = "text" =>
                     /\ s[6] = Do("check", "text")
                     /\ \A i \in 1..Keyboards : s[6 + i] = Map(i, "text", 0)
               /\ IsPointer(tx) =>
                     /\ s[nk + 1] = Do("local", "pointer") /\ s[nk + 2] = Set("mouse", "agent")
                     /\ s[nk + 3] = Set("ptrFocus", tx.target)
                     /\ s[nk + 4] = Do("check", "pointer")
<1> DEFINE S == BorrowCalls
           kb == <<Do("local", "keyboard"), Set("kbFocus", None), Set("keyboard", "agent"),
                   Set("kbFocus", tx.target), Do("check", "keyboard")>>
           maps == [i \in 1..Keyboards |-> Map(i, "text", 0)]
           tm == <<Do("check", "text")>> \o maps
           pt == <<Do("local", "pointer"), Set("mouse", "agent"),
                   Set("ptrFocus", tx.target), Do("check", "pointer")>>
           okb == Optional(NeedsKeyboard, kb)
           otm == Optional(tx.kind = "text", tm)
           opt == Optional(IsPointer(tx), pt)
<1>1. kb \in Seq(S) /\ Len(kb) = 5
  <2>1. /\ Do("local", "keyboard") \in S /\ Set("kbFocus", None) \in S
        /\ Set("keyboard", "agent") \in S /\ Set("kbFocus", tx.target) \in S
        /\ Do("check", "keyboard") \in S
    BY DEF BorrowCalls
  <2> HIDE DEF S
  <2> QED BY <2>1, ShortSeqs
<1>2. pt \in Seq(S) /\ Len(pt) = 4
  <2>1. /\ Do("local", "pointer") \in S /\ Set("mouse", "agent") \in S
        /\ Set("ptrFocus", tx.target) \in S /\ Do("check", "pointer") \in S
    BY DEF BorrowCalls
  <2> HIDE DEF S
  <2> QED BY <2>1, ShortSeqs
<1>3. /\ maps \in Seq(S) /\ Len(maps) = Keyboards /\ Keyboards \in Nat
      /\ \A i \in 1..Keyboards : maps[i] = Map(i, "text", 0)
  <2>1. \A i \in 1..Keyboards : Map(i, "text", 0) \in S
    BY DEF BorrowCalls
  <2>2. Keyboards \in Nat
    BY BorrowingAssumption
  <2> HIDE DEF S
  <2> QED BY <2>1, <2>2
<1>4. /\ tm \in Seq(S) /\ Len(tm) = 1 + Keyboards /\ tm[1] = Do("check", "text")
      /\ \A i \in 1..Keyboards : tm[1 + i] = Map(i, "text", 0)
  <2> DEFINE one == <<Do("check", "text")>>
  <2>1. one \in Seq(S) /\ Len(one) = 1 /\ one[1] = Do("check", "text")
    <3>1. Do("check", "text") \in S
      BY DEF BorrowCalls
    <3> HIDE DEF S
    <3> QED BY <3>1, ShortSeqs
  <2> HIDE DEF one, maps, S
  <2>2. /\ one \o maps \in Seq(S) /\ Len(one \o maps) = 1 + Keyboards
        /\ (one \o maps)[1] = one[1]
        /\ \A i \in 1..Keyboards : (one \o maps)[1 + i] = maps[i]
    <3>1. /\ one \o maps \in Seq(S) /\ Len(one \o maps) = Len(one) + Len(maps)
          /\ \A i \in 1..Len(one) : (one \o maps)[i] = one[i]
          /\ \A i \in 1..Len(maps) : (one \o maps)[Len(one) + i] = maps[i]
      <4>1. one \in Seq(S) /\ maps \in Seq(S)
        BY <1>3, <2>1
      <4> QED BY ONLY <4>1, ConcatAt
    <3> QED BY <1>3, <2>1, <3>1
  <2> QED BY <1>3, <2>1, <2>2 DEF one
<1>5. BorrowScript = (okb \o otm) \o opt
  BY Zenon DEF BorrowScript, NeedsKeyboard
<1>6. /\ NeedsKeyboard \in BOOLEAN /\ IsPointer(tx) \in BOOLEAN
      /\ tx.kind = "text" => NeedsKeyboard /\ ~IsPointer(tx)
      /\ ~NeedsKeyboard => IsPointer(tx)
  BY DEF NeedsKeyboard, IsPointer, Requests
<1>7. /\ kb[1] = Do("local", "keyboard") /\ kb[2] = Set("kbFocus", None)
      /\ kb[3] = Set("keyboard", "agent") /\ kb[4] = Set("kbFocus", tx.target)
      /\ kb[5] = Do("check", "keyboard")
      /\ pt[1] = Do("local", "pointer") /\ pt[2] = Set("mouse", "agent")
      /\ pt[3] = Set("ptrFocus", tx.target) /\ pt[4] = Do("check", "pointer")
  OBVIOUS
<1> HIDE DEF kb, pt, tm, maps, S
<1>8. /\ okb \in Seq(S) /\ Len(okb) = IF NeedsKeyboard THEN 5 ELSE 0
      /\ NeedsKeyboard => okb = kb
  BY <1>1, <1>6, ShortSeqs DEF Optional
<1>9. /\ otm \in Seq(S) /\ Len(otm) = IF tx.kind = "text" THEN 1 + Keyboards ELSE 0
      /\ tx.kind = "text" => otm = tm
  <2>1. CASE tx.kind = "text"
    <3>1. otm = tm
      BY <2>1 DEF Optional
    <3> HIDE DEF otm
    <3> QED BY <1>4, <2>1, <3>1
  <2>2. CASE tx.kind # "text"
    <3>1. otm = <<>>
      BY <2>2 DEF Optional
    <3> HIDE DEF otm
    <3> QED BY <2>2, <3>1, ShortSeqs
  <2> QED BY <2>1, <2>2
<1>10. /\ opt \in Seq(S) /\ Len(opt) = IF IsPointer(tx) THEN 4 ELSE 0
       /\ IsPointer(tx) => opt = pt
  BY <1>2, <1>6, ShortSeqs DEF Optional
<1> DEFINE s1 == okb \o otm
           nk == IF NeedsKeyboard THEN 5 ELSE 0
           nt == IF tx.kind = "text" THEN 1 + Keyboards ELSE 0
           np == IF IsPointer(tx) THEN 4 ELSE 0
<1>11. nk \in Nat /\ nt \in Nat /\ np \in Nat
  BY <1>3
<1> HIDE DEF okb, otm, opt
<1>12. Len(okb) = nk /\ Len(otm) = nt /\ Len(opt) = np
  BY <1>8, <1>9, <1>10
<1>13. /\ s1 \in Seq(S) /\ Len(s1) = nk + nt
       /\ \A i \in 1..nk : s1[i] = okb[i]
       /\ \A i \in 1..nt : s1[nk + i] = otm[i]
  <2>1. okb \in Seq(S) /\ otm \in Seq(S)
    BY <1>8, <1>9
  <2>2. /\ s1 \in Seq(S) /\ Len(s1) = Len(okb) + Len(otm)
        /\ \A i \in 1..Len(okb) : s1[i] = okb[i]
        /\ \A i \in 1..Len(otm) : s1[Len(okb) + i] = otm[i]
    BY ONLY <2>1, ConcatAt
  <2> QED BY <1>12, <2>2
<1> HIDE DEF s1
<1> DEFINE s2 == s1 \o opt
<1>14. /\ s2 \in Seq(S) /\ Len(s2) = nk + nt + np
       /\ \A i \in 1..(nk + nt) : s2[i] = s1[i]
       /\ \A i \in 1..np : s2[nk + nt + i] = opt[i]
  <2>1. /\ s2 \in Seq(S) /\ Len(s2) = Len(s1) + Len(opt)
        /\ \A i \in 1..Len(s1) : s2[i] = s1[i]
        /\ \A i \in 1..Len(opt) : s2[Len(s1) + i] = opt[i]
    <3>1. s1 \in Seq(S) /\ opt \in Seq(S)
      BY <1>10, <1>13
    <3> QED BY ONLY <3>1, ConcatAt
  <2> QED BY <1>11, <1>12, <1>13, <2>1
<1>15. BorrowScript = s2
  BY <1>5 DEF s1
<1> HIDE DEF s2
<1>16. NeedsKeyboard =>
          /\ s2[1] = Do("local", "keyboard") /\ s2[2] = Set("kbFocus", None)
          /\ s2[3] = Set("keyboard", "agent") /\ s2[4] = Set("kbFocus", tx.target)
          /\ s2[5] = Do("check", "keyboard")
  <2> SUFFICES ASSUME NeedsKeyboard
               PROVE  /\ s2[1] = kb[1] /\ s2[2] = kb[2] /\ s2[3] = kb[3] /\ s2[4] = kb[4]
                      /\ s2[5] = kb[5]
    BY <1>7
  <2>1. nk = 5 /\ okb = kb
    BY <1>8
  <2>2. \A i \in 1..5 : i \in 1..nk /\ i \in 1..(nk + nt)
    BY <1>11, <2>1
  <2> QED BY <1>13, <1>14, <2>1, <2>2
<1>17. tx.kind = "text" =>
          /\ s2[6] = Do("check", "text")
          /\ \A i \in 1..Keyboards : s2[6 + i] = Map(i, "text", 0)
  <2> SUFFICES ASSUME tx.kind = "text"
               PROVE  /\ s2[6] = tm[1]
                      /\ \A i \in 1..Keyboards : s2[6 + i] = tm[1 + i]
    BY <1>4
  <2>1. nk = 5 /\ nt = 1 + Keyboards /\ otm = tm
    BY <1>6, <1>9
  <2>2. \A i \in 1..(1 + Keyboards) : s2[5 + i] = tm[i]
    <3> TAKE i \in 1..(1 + Keyboards)
    <3>1. i \in 1..nt /\ nk + i \in 1..(nk + nt)
      BY <1>3, <2>1
    <3> QED BY <1>13, <1>14, <2>1, <3>1
  <2>3. 1 \in 1..(1 + Keyboards) /\ 5 + 1 = 6
    BY <1>3
  <2>4. \A i \in 1..Keyboards : 1 + i \in 1..(1 + Keyboards) /\ 5 + (1 + i) = 6 + i
    BY <1>3
  <2> QED BY <2>2, <2>3, <2>4
<1>18. IsPointer(tx) =>
          /\ s2[nk + 1] = Do("local", "pointer") /\ s2[nk + 2] = Set("mouse", "agent")
          /\ s2[nk + 3] = Set("ptrFocus", tx.target)
          /\ s2[nk + 4] = Do("check", "pointer")
  <2> SUFFICES ASSUME IsPointer(tx)
               PROVE  /\ s2[nk + 1] = pt[1] /\ s2[nk + 2] = pt[2]
                      /\ s2[nk + 3] = pt[3] /\ s2[nk + 4] = pt[4]
    BY <1>7
  <2>1. nt = 0 /\ np = 4 /\ opt = pt
    BY <1>6, <1>10
  <2> QED BY <1>11, <1>14, <2>1
<1> QED BY <1>14, <1>15, <1>16, <1>17, <1>18 DEF S

(* Borrowing, as it begins: the flag comes before what it stands for, and  *)
(* the check comes after the change.                                       *)
LEMMA BorrowBegins ==
    ASSUME TypesOK, Begun, GoOn("begun", "borrow", BorrowScript)
    PROVE  BorrowOK' /\ TodoOK'
<1> DEFINE s == BorrowScript
           lk == Do("local", "keyboard")
           lp == Do("local", "pointer")
           ct == Do("check", "text")
           nk == IF NeedsKeyboard THEN 5 ELSE 0
           nt == IF tx.kind = "text" THEN 1 + Keyboards ELSE 0
           np == IF IsPointer(tx) THEN 4 ELSE 0
<1>1. /\ phase' = "borrow" /\ todo' = s /\ pressed' = pressed /\ pressed = {} /\ borrowed = {}
      /\ tx' = tx /\ saved' = saved /\ borrowed' = borrowed /\ textResources' = textResources
      /\ seat' = seat /\ failed' = failed
  BY DEF GoOn, Begun, worldVars, localVars
<1>2. /\ s \in Seq(BorrowCalls) /\ Len(s) = nk + nt + np
      /\ NeedsKeyboard =>
            /\ s[1] = Do("local", "keyboard") /\ s[2] = Set("kbFocus", None)
            /\ s[3] = Set("keyboard", "agent") /\ s[4] = Set("kbFocus", tx.target)
            /\ s[5] = Do("check", "keyboard")
      /\ tx.kind = "text" =>
            /\ s[6] = Do("check", "text")
            /\ \A i \in 1..Keyboards : s[6 + i] = Map(i, "text", 0)
      /\ IsPointer(tx) =>
            /\ s[nk + 1] = Do("local", "pointer") /\ s[nk + 2] = Set("mouse", "agent")
            /\ s[nk + 3] = Set("ptrFocus", tx.target)
            /\ s[nk + 4] = Do("check", "pointer")
  BY BorrowScriptIs DEF TypesOK
<1>3. /\ Keyboards \in Nat
      /\ tx.kind = "text" => NeedsKeyboard /\ ~IsPointer(tx)
      /\ ~NeedsKeyboard => IsPointer(tx)
      /\ Theirs' = Theirs /\ NeedsKeyboard' = NeedsKeyboard /\ IsPointer(tx)' = IsPointer(tx)
      /\ BorrowCalls' = BorrowCalls
  BY <1>1, SameCalls, BorrowingAssumption DEF NeedsKeyboard, IsPointer
<1>4. TodoOK'
  BY <1>1, <1>2, <1>3 DEF TodoOK
<1> HIDE DEF s
<1>5. /\ ~SetsField(lk, "kbFocus") /\ ~SetsField(lk, "keyboard") /\ lk # ct /\ lk.op # "keymap"
      /\ ct.op # "keymap" /\ ~SetsField(ct, "kbFocus") /\ ~SetsField(ct, "keyboard")
      /\ \A i : ~SetsField(Map(i, "text", 0), "kbFocus")
      /\ \A v : SetsField(Set("kbFocus", v), "kbFocus") /\ Set("kbFocus", v).op # "keymap"
      /\ \A v : Set("keyboard", v).op # "keymap"
      /\ \A v : /\ ~SetsField(Set("ptrFocus", v), "kbFocus")
                /\ ~SetsField(Set("ptrFocus", v), "keyboard")
                /\ Set("ptrFocus", v) # ct /\ Set("ptrFocus", v).op # "keymap"
      /\ \A v : /\ ~SetsField(Set("mouse", v), "kbFocus") /\ ~SetsField(Set("mouse", v), "keyboard")
                /\ Set("mouse", v) # ct /\ Set("mouse", v).op # "keymap"
      /\ \A a \in {"keyboard", "pointer"} :
            /\ ~SetsField(Do("check", a), "kbFocus") /\ ~SetsField(Do("check", a), "keyboard")
            /\ Do("check", a) # ct /\ Do("check", a).op # "keymap"
      /\ ~SetsField(lp, "kbFocus") /\ ~SetsField(lp, "keyboard") /\ lp # ct /\ lp.op # "keymap"
  BY DEF SetsField, Do, Set, Map, Call
<1> HIDE DEF lk, lp, ct
<1>6. ASSUME NEW i \in (nk + nt + 1)..Len(s)
      PROVE  /\ ~SetsField(s[i], "kbFocus") /\ ~SetsField(s[i], "keyboard")
             /\ s[i] # ct /\ s[i].op # "keymap"
  <2>1. IsPointer(tx) /\ nt = 0 /\ np = 4
    BY <1>2, <1>3
  <2>2. i \in {nk + 1, nk + 2, nk + 3, nk + 4}
    BY <1>2, <2>1
  <2>3. s[nk + 1] = lp
    BY <1>2, <2>1 DEF lp
  <2> HIDE DEF nk
  <2> QED BY <1>2, <1>5, <2>1, <2>2, <2>3
<1>7. ASSUME NEW i \in 1..Len(s), i > nk, i <= nk + nt
      PROVE  /\ NeedsKeyboard /\ nk = 5 /\ s[6] = ct
             /\ \/ i = 6 /\ s[i] = ct
                \/ i > 6 /\ \E j \in 1..Keyboards : s[i] = Map(j, "text", 0)
  <2>1. tx.kind = "text" /\ NeedsKeyboard /\ nk = 5 /\ nt = 1 + Keyboards
    BY <1>3, <1>7
  <2>2. s[6] = ct
    BY <1>2, <2>1 DEF ct
  <2>3. CASE i = 6
    BY <2>1, <2>2, <2>3
  <2>4. CASE i # 6
    <3>1. i - 6 \in 1..Keyboards /\ i = 6 + (i - 6)
      BY <1>2, <1>3, <1>7, <2>1, <2>4
    <3>2. s[i] = Map(i - 6, "text", 0)
      BY <1>2, <2>1, <3>1
    <3> QED BY <2>1, <2>2, <3>1, <3>2
  <2> QED BY <2>3, <2>4
<1>8. ASSUME NEW i \in 1..Len(s), i <= nk
      PROVE  /\ NeedsKeyboard /\ nk = 5 /\ s[1] = lk
             /\ s[i] # ct /\ s[i].op # "keymap"
             /\ SetsField(s[i], "kbFocus") \/ SetsField(s[i], "keyboard") => i > 1
  <2>1. NeedsKeyboard /\ nk = 5
    BY <1>8
  <2>2. i \in {1, 2, 3, 4, 5} /\ s[1] = lk
    BY <1>2, <1>8, <2>1 DEF lk
  <2>3. \A v \in {None, tx.target} : Set("kbFocus", v) # ct
    BY DEF ct, Set, Do, Call
  <2>4. Set("keyboard", "agent") # ct
    BY DEF ct, Set, Do, Call
  <2> QED BY <1>2, <1>5, <2>1, <2>2, <2>3, <2>4
<1>9. ASSUME NEW i \in 1..Len(s)
      PROVE  /\ \/ SetsField(s[i], "kbFocus") \/ SetsField(s[i], "keyboard") \/ s[i] = ct
                => Before(lk, i)'
             /\ s[i].op = "keymap" => Before(ct, i)'
  <2>1. Len(s) \in Nat /\ nk \in Nat /\ nt \in Nat
    BY <1>2, <1>3, EmptyAt
  <2>2. CASE i > nk + nt
    <3>1. i \in (nk + nt + 1)..Len(s)
      BY <2>1, <2>2
    <3> QED BY <1>6, <3>1
  <2>3. CASE i > nk /\ i <= nk + nt
    <3>1. /\ NeedsKeyboard /\ s[6] = ct /\ i >= 6
          /\ \/ i = 6 /\ s[i] = ct
             \/ i > 6 /\ \E j \in 1..Keyboards : s[i] = Map(j, "text", 0)
      BY <1>7, <2>3
    <3>2. s[1] = lk
      BY <1>2, <3>1 DEF lk
    <3>3. Before(lk, i)'
      <4>1. 1 \in 1..(i - 1) /\ 1 <= Len(s)
        BY <2>1, <3>1
      <4> QED BY <1>1, <3>2, <4>1 DEF Before, lk, Do, Call
    <3>4. i > 6 => Before(ct, i)'
      <4>1. i > 6 => 6 \in 1..(i - 1) /\ 6 <= Len(s)
        BY <2>1
      <4> QED BY <1>1, <3>1, <4>1 DEF Before, ct, Do, Call
    <3> QED BY <1>5, <3>1, <3>3, <3>4
  <2>4. CASE i <= nk
    <3>1. i > 1 => Before(lk, i)'
      <4>1. i > 1 => 1 \in 1..(i - 1) /\ 1 <= Len(s)
        BY <2>1
      <4> QED BY <1>1, <1>8, <2>4, <4>1 DEF Before, lk, Do, Call
    <3> QED BY <1>8, <2>4, <3>1
  <2> QED BY <2>1, <2>2, <2>3, <2>4
<1>10. NeedsKeyboard => Before(lk, Len(todo) + 1)' /\ Focusing("keyboard", "kbFocus", seat.kbFocus)'
  <2> SUFFICES ASSUME NeedsKeyboard
               PROVE  Before(lk, Len(todo) + 1)' /\ Focusing("keyboard", "kbFocus", seat.kbFocus)'
    OBVIOUS
  <2>1. nk = 5 /\ Len(s) \in Nat /\ Len(s) >= 5 /\ s[1] = lk /\ s[5] = Do("check", "keyboard")
    BY <1>2, <1>3, EmptyAt DEF lk
  <2>2. \A i \in 6..Len(s) : ~SetsField(s[i], "kbFocus")
    <3> TAKE i \in 6..Len(s)
    <3>1. CASE i > nk + nt
      <4>1. i \in (nk + nt + 1)..Len(s)
        BY <1>3, <2>1, <3>1
      <4> QED BY <1>6, <4>1
    <3>2. CASE i <= nk + nt
      <4>1. i \in 1..Len(s) /\ i > nk
        BY <2>1
      <4>2. s[i] = ct \/ \E j \in 1..Keyboards : s[i] = Map(j, "text", 0)
        BY <1>7, <3>2, <4>1
      <4> QED BY <1>5, <4>2
    <3> QED BY <1>3, <3>1, <3>2
  <2>3. Before(lk, Len(todo) + 1)'
    <3>1. 1 \in 1..((Len(s) + 1) - 1) /\ 1 <= Len(s)
      BY <2>1
    <3> QED BY <1>1, <2>1, <3>1 DEF Before, lk, Do, Call
  <2>4. Focusing("keyboard", "kbFocus", seat.kbFocus)'
    <3>1. 5 \in 1..Len(todo') /\ todo'[5] = Do("check", "keyboard")
      BY <1>1, <2>1
    <3>2. Final("kbFocus", 5 + 1)'
      BY <1>1, <2>2 DEF Final, SetsField
    <3> QED BY <3>1, <3>2 DEF Focusing
  <2> QED BY <2>3, <2>4
<1>11. IsPointer(tx) => /\ Before(lp, Len(todo) + 1)'
                          /\ Focusing("pointer", "ptrFocus", seat.ptrFocus)'
  <2> SUFFICES ASSUME IsPointer(tx)
               PROVE  Before(lp, Len(todo) + 1)' /\ Focusing("pointer", "ptrFocus", seat.ptrFocus)'
    OBVIOUS
  <2>1. nk \in Nat /\ nt = 0 /\ np = 4
    BY <1>3
  <2>2. s[nk + 1] = lp /\ s[nk + 4] = Do("check", "pointer") /\ Len(s) = nk + 4
    BY <1>2, <2>1 DEF lp
  <2> HIDE DEF nk, nt, np
  <2>3. Before(lp, Len(todo) + 1)'
    <3>1. nk + 1 \in 1..((Len(s) + 1) - 1) /\ nk + 1 <= Len(s)
      BY <2>1, <2>2
    <3> QED BY <1>1, <2>2, <3>1 DEF Before, lp, Do, Call
  <2>4. Focusing("pointer", "ptrFocus", seat.ptrFocus)'
    <3>1. nk + 4 \in 1..Len(todo') /\ todo'[nk + 4] = Do("check", "pointer")
      BY <1>1, <2>1, <2>2
    <3>2. Final("ptrFocus", Len(todo) + 1)'
      BY <1>1, <2>1, <2>2 DEF Final, SetsField
    <3>3. Len(todo') = nk + 4
      BY <1>1, <2>2
    <3>4. \E j \in 1..Len(todo') : todo'[j] = Do("check", "pointer") /\ Final("ptrFocus", j + 1)'
      BY <3>1, <3>2, <3>3
    <3> QED BY <3>4 DEF Focusing
  <2> QED BY <2>3, <2>4
<1> QED BY <1>1, <1>3, <1>4, <1>9, <1>10, <1>11 DEF BorrowOK, lk, lp, ct

LEMMA OptionalSeq ==
    ASSUME NEW S, NEW s, NEW cond, cond => s \in Seq(S)
    PROVE  /\ Optional(cond, s) \in Seq(S)
           /\ cond => Optional(cond, s) = s
           /\ ~cond => Optional(cond, s) = <<>> /\ Len(Optional(cond, s)) = 0
BY ShortSeqs DEF Optional

LEMMA KeyScriptIs ==
    /\ KeyScript \in Seq(KeyCalls) /\ Len(KeyScript) = 4
    /\ CharScript \in Seq(KeyCalls) /\ Len(CharScript) = 5
    /\ \A i \in 1..4 : CharScript[i] = KeyScript[i]
    /\ CharScript[5] = Do("local", "count")
<1>1. KeyScript \in Seq(KeyCalls) /\ Len(KeyScript) = 4
  BY ShortSeqs DEF KeyScript, KeyCalls
<1> DEFINE one == <<Do("local", "count")>>
<1>2. one \in Seq(KeyCalls) /\ Len(one) = 1 /\ one[1] = Do("local", "count")
  BY ShortSeqs DEF KeyCalls
<1> HIDE DEF one
<1>3. /\ KeyScript \o one \in Seq(KeyCalls) /\ Len(KeyScript \o one) = Len(KeyScript) + Len(one)
      /\ \A i \in 1..Len(KeyScript) : (KeyScript \o one)[i] = KeyScript[i]
      /\ \A i \in 1..Len(one) : (KeyScript \o one)[Len(KeyScript) + i] = one[i]
  <2>1. KeyScript \in Seq(KeyCalls) /\ one \in Seq(KeyCalls)
    BY <1>1, <1>2
  <2> QED BY ONLY <2>1, ConcatAt
<1>4. CharScript = KeyScript \o one
  BY DEF CharScript, one
<1>5. CharScript[4 + 1] = one[1]
  BY <1>1, <1>2, <1>3, <1>4
<1> QED BY <1>1, <1>2, <1>3, <1>4, <1>5

LEMMA GestureScriptIs ==
    ASSUME tx.size \in Nat
    PROVE  GestureScript \in Seq(GestureCalls)
<1> DEFINE S == GestureCalls
           told == Optional(tx.mods, <<Do("mods", "agent")>>)
           clicks == Repeat(tx.size, PressScript \o ReleaseScript)
           drags == PressScript \o Repeat(tx.size, MotionScript) \o ReleaseScript
           axis == <<Do("event", "axis"), Do("event", "frame")>>
           click == Optional(tx.kind = "click", clicks)
           drag == Optional(tx.kind = "drag", drags)
           scroll == Optional(tx.kind = "scroll", axis)
<1>1. /\ Do("event", "motion") \in S /\ Do("event", "frame") \in S /\ Do("event", "axis") \in S
      /\ Do("button", "down") \in S /\ Do("button", "up") \in S /\ Do("local", "released") \in S
      /\ tx.mods => Do("mods", "agent") \in S
  BY DEF GestureCalls
<1> HIDE DEF S
<1>2. /\ PressScript \in Seq(S) /\ Len(PressScript) = 2
      /\ MotionScript \in Seq(S) /\ Len(MotionScript) = 2
      /\ ReleaseScript \in Seq(S) /\ Len(ReleaseScript) = 3
      /\ axis \in Seq(S)
  BY <1>1, ShortSeqs DEF PressScript, MotionScript, ReleaseScript
<1>3. told \in Seq(S)
  <2>1. tx.mods => <<Do("mods", "agent")>> \in Seq(S)
    BY <1>1, ShortSeqs
  <2> QED BY <2>1, OptionalSeq
<1>4. clicks \in Seq(S)
  <2> DEFINE both == PressScript \o ReleaseScript
  <2>1. both \in Seq(S) /\ Len(both) = 5
    <3>1. PressScript \in Seq(S) /\ ReleaseScript \in Seq(S)
      BY <1>2
    <3>2. both \in Seq(S) /\ Len(both) = Len(PressScript) + Len(ReleaseScript)
      BY ONLY <3>1, ConcatAt
    <3> QED BY <1>2, <3>2
  <2> HIDE DEF both
  <2>2. 5 \in {1, 2, 3, 4, 5}
    OBVIOUS
  <2>3. Repeat(tx.size, both) \in Seq(S)
    BY <2>1, <2>2, RepeatAt
  <2> QED BY <2>3 DEF both
<1>5. drags \in Seq(S)
  <2>1. 2 \in {1, 2, 3, 4, 5}
    OBVIOUS
  <2>2. Repeat(tx.size, MotionScript) \in Seq(S)
    BY <1>2, <2>1, RepeatAt
  <2>3. PressScript \o Repeat(tx.size, MotionScript) \in Seq(S)
    BY <1>2, <2>2, ConcatAt
  <2> QED BY <1>2, <2>3, ConcatAt
<1> HIDE DEF clicks, drags, axis, told
<1>6. click \in Seq(S) /\ drag \in Seq(S) /\ scroll \in Seq(S)
  BY <1>2, <1>4, <1>5, ShortSeqs DEF Optional
<1>7. GestureScript = ((((told \o MotionScript) \o click) \o drag) \o scroll) \o told
  BY Zenon DEF GestureScript, told, clicks, drags, axis
<1> HIDE DEF click, drag, scroll
<1>8. ((((told \o MotionScript) \o click) \o drag) \o scroll) \o told \in Seq(S)
  <2>1. told \o MotionScript \in Seq(S)
    BY <1>2, <1>3, ConcatAt
  <2>2. (told \o MotionScript) \o click \in Seq(S)
    BY <1>6, <2>1, ConcatAt
  <2>3. ((told \o MotionScript) \o click) \o drag \in Seq(S)
    BY <1>6, <2>2, ConcatAt
  <2>4. (((told \o MotionScript) \o click) \o drag) \o scroll \in Seq(S)
    BY <1>6, <2>3, ConcatAt
  <2> QED BY <1>3, <2>4, ConcatAt
<1> QED BY <1>7, <1>8 DEF S

LEMMA ActScriptIs ==
    ASSUME tx \in Requests
    PROVE  ActScript \in Seq(ActCalls)
<1>1. tx.size \in Nat
  BY DEF Requests
<1>2. CASE IsPointer(tx)
  BY <1>1, <1>2, GestureScriptIs DEF ActScript, ActCalls
<1>3. CASE ~IsPointer(tx) /\ tx.kind = "key"
  BY <1>3, KeyScriptIs DEF ActScript, ActCalls
<1>4. CASE ~IsPointer(tx) /\ tx.kind # "key"
  <2>1. 5 \in {1, 2, 3, 4, 5}
    OBVIOUS
  <2>2. Repeat(tx.size, CharScript) \in Seq(KeyCalls)
    BY <1>1, <2>1, KeyScriptIs, RepeatAt
  <2> QED BY <1>4, <2>2 DEF ActScript, ActCalls, CharScript
<1> QED BY <1>2, <1>3, <1>4

LEMMA CleanupScriptIs == CleanupScript \in Seq(CleanupCalls)
<1> DEFINE S == CleanupCalls
           up == <<Call("button", "up", 1), Call("event", "frame", 1)>>
           told == <<Call("mods", "agent", 2)>>
<1>1. /\ Call("button", "up", 1) \in S /\ Call("event", "frame", 1) \in S
      /\ tx.mods => Call("mods", "agent", 2) \in S
  BY DEF CleanupCalls
<1> HIDE DEF S
<1>2. up \in Seq(S) /\ (tx.mods => told \in Seq(S))
  BY <1>1, ShortSeqs
<1> HIDE DEF up, told
<1>3. Optional("gesture" \in holding, up) \in Seq(S) /\ Optional(tx.mods, told) \in Seq(S)
  BY <1>2, ShortSeqs DEF Optional
<1>4. Optional("gesture" \in holding, up) \o Optional(tx.mods, told) \in Seq(S)
  BY <1>3, ConcatAt
<1> QED BY <1>4 DEF CleanupScript, up, told, S

(* The part of restore() that is about the keyboard. *)
KeyboardPart ==
    Optional("keyboard" \in borrowed,
             Optional("key" \in holding /\ seat.kbFocus = tx.target,
                      <<Call("key", "up", Keyboards + 1)>>)
             \o RestoreMaps
             \o <<Set("kbFocus", None), Set("keyboard", saved.keyboard),
                  Set("kbFocus", saved.kbFocus)>>
             \o Optional(saved.kbFocus # None, <<Do("mods", "human")>>))

(* The part that is about the pointer. *)
PointerPart ==
    Optional("pointer" \in borrowed,
             Optional("button" \in holding /\ seat.ptrFocus = tx.target,
                      <<Do("button", "up")>>)
             \o <<Do("event", "frame"), Set("ptrFocus", saved.ptrFocus)>>
             \o MotionScript
             \o <<Set("mouse", saved.mouse)>>)

LEMMA KeyboardPartIs ==
    /\ KeyboardPart \in Seq({c \in RestoreCalls : ~SetsField(c, "ptrFocus")})
    /\ "keyboard" \notin borrowed => Len(KeyboardPart) = 0
    /\ "keyboard" \in borrowed /\ "key" \in holding /\ seat.kbFocus = tx.target =>
          Len(KeyboardPart) >= 1 /\ KeyboardPart[1].op = "key"
    /\ "keyboard" \in borrowed /\ saved.kbFocus # None =>
          Len(KeyboardPart) >= 1 /\ KeyboardPart[Len(KeyboardPart)] = Do("mods", "human")
    /\ "keyboard" \in borrowed /\ textResources # {} =>
          \A i \in 1..Keyboards : \E j \in 1..Len(KeyboardPart) :
             KeyboardPart[j] = Map(i, saved.keyboard, i)
<1> DEFINE S == {c \in RestoreCalls : ~SetsField(c, "ptrFocus")}
           up == <<Call("key", "up", Keyboards + 1)>>
           key == Optional("key" \in holding /\ seat.kbFocus = tx.target, up)
           maps == [i \in 1..Keyboards |-> Map(i, saved.keyboard, i)]
           restored == Optional(textResources # {}, maps)
           seats == <<Set("kbFocus", None), Set("keyboard", saved.keyboard),
                      Set("kbFocus", saved.kbFocus)>>
           mod == <<Do("mods", "human")>>
           told == Optional(saved.kbFocus # None, mod)
<1>1. /\ Call("key", "up", Keyboards + 1) \in S
      /\ \A i \in 1..Keyboards : Map(i, saved.keyboard, i) \in S
      /\ Set("kbFocus", None) \in S /\ Set("keyboard", saved.keyboard) \in S
      /\ Set("kbFocus", saved.kbFocus) \in S /\ Do("mods", "human") \in S
  <2>1. /\ Call("key", "up", Keyboards + 1) \in RestoreCalls
        /\ \A i \in 1..Keyboards : Map(i, saved.keyboard, i) \in RestoreCalls
        /\ Set("kbFocus", None) \in RestoreCalls
        /\ Set("keyboard", saved.keyboard) \in RestoreCalls
        /\ Set("kbFocus", saved.kbFocus) \in RestoreCalls
        /\ Do("mods", "human") \in RestoreCalls
    BY DEF RestoreCalls
  <2>2. /\ ~SetsField(Call("key", "up", Keyboards + 1), "ptrFocus")
        /\ \A i \in 1..Keyboards : ~SetsField(Map(i, saved.keyboard, i), "ptrFocus")
        /\ \A v : ~SetsField(Set("kbFocus", v), "ptrFocus")
        /\ \A v : ~SetsField(Set("keyboard", v), "ptrFocus")
        /\ ~SetsField(Do("mods", "human"), "ptrFocus")
    BY DEF SetsField, Do, Set, Map, Call
  <2> QED BY <2>1, <2>2
<1>2. up[1].op = "key" /\ mod[1] = Do("mods", "human")
  BY DEF Call
<1> HIDE DEF S
<1>3. /\ up \in Seq(S) /\ Len(up) = 1 /\ seats \in Seq(S) /\ Len(seats) = 3
      /\ mod \in Seq(S) /\ Len(mod) = 1
  BY <1>1, ShortSeqs
<1>4. /\ maps \in Seq(S) /\ Len(maps) = Keyboards
      /\ \A i \in 1..Keyboards : maps[i] = Map(i, saved.keyboard, i)
  <2>1. Keyboards \in Nat
    BY BorrowingAssumption
  <2> QED BY <1>1, <2>1
<1> HIDE DEF up, maps, seats, mod
<1>5. key \in Seq(S) /\ restored \in Seq(S) /\ told \in Seq(S)
  BY <1>3, <1>4, ShortSeqs DEF Optional
<1>6. /\ "key" \in holding /\ seat.kbFocus = tx.target => key = up
      /\ textResources # {} => restored = maps
      /\ saved.kbFocus # None => told = mod
  BY DEF Optional
<1>7. restored = RestoreMaps
  BY DEF RestoreMaps, maps
<1> HIDE DEF key, restored, told
<1> DEFINE a == key \o restored
           b == a \o seats
           c == b \o told
<1>8. /\ a \in Seq(S) /\ Len(a) = Len(key) + Len(restored)
      /\ Len(key) \in Nat /\ Len(restored) \in Nat
      /\ \A i \in 1..Len(key) : a[i] = key[i]
      /\ \A i \in 1..Len(restored) : a[Len(key) + i] = restored[i]
  BY ONLY <1>5, ConcatAt
<1> HIDE DEF a
<1>9. /\ b \in Seq(S) /\ Len(b) = Len(a) + 3
      /\ \A i \in 1..Len(a) : b[i] = a[i]
  <2>1. a \in Seq(S) /\ seats \in Seq(S)
    BY <1>3, <1>8
  <2>2. /\ b \in Seq(S) /\ Len(b) = Len(a) + Len(seats)
        /\ \A i \in 1..Len(a) : b[i] = a[i]
    BY ONLY <2>1, ConcatAt
  <2> QED BY <1>3, <2>2
<1> HIDE DEF b
<1>10. /\ c \in Seq(S) /\ Len(c) = Len(b) + Len(told) /\ Len(told) \in Nat
       /\ \A i \in 1..Len(b) : c[i] = b[i]
       /\ \A i \in 1..Len(told) : c[Len(b) + i] = told[i]
  <2>1. b \in Seq(S) /\ told \in Seq(S)
    BY <1>5, <1>9
  <2> QED BY ONLY <2>1, ConcatAt
<1> HIDE DEF c
<1>11. KeyboardPart = Optional("keyboard" \in borrowed, c)
  BY <1>7, Zenon DEF KeyboardPart, key, up, a, b, c, seats, told, mod
<1>12. KeyboardPart \in Seq(S)
  BY <1>10, <1>11, ShortSeqs DEF Optional
<1>13. "keyboard" \notin borrowed => Len(KeyboardPart) = 0
  BY <1>11, ShortSeqs DEF Optional
<1>14. \A i \in 1..Len(a) : c[i] = a[i] /\ i <= Len(c)
  BY <1>8, <1>9, <1>10
<1>15. ASSUME "keyboard" \in borrowed, "key" \in holding, seat.kbFocus = tx.target
       PROVE  Len(KeyboardPart) >= 1 /\ KeyboardPart[1].op = "key"
  <2>1. KeyboardPart = c /\ key = up
    BY <1>6, <1>11, <1>15 DEF Optional
  <2>2. 1 \in 1..Len(key) /\ 1 \in 1..Len(a)
    <3>1. Len(key) = 1
      BY <1>3, <2>1
    <3> QED BY <1>8, <3>1
  <2>3. c[1] = up[1] /\ Len(c) >= 1
    BY <1>8, <1>9, <1>10, <1>14, <2>1, <2>2
  <2> QED BY <1>2, <2>1, <2>3 DEF up
<1>16. ASSUME "keyboard" \in borrowed, saved.kbFocus # None
       PROVE  Len(KeyboardPart) >= 1 /\ KeyboardPart[Len(KeyboardPart)] = Do("mods", "human")
  <2>1. KeyboardPart = c /\ told = mod
    BY <1>6, <1>11, <1>16 DEF Optional
  <2>2. Len(c) = Len(b) + 1 /\ c[Len(b) + 1] = mod[1] /\ Len(c) >= 1
    <3>1. Len(told) = 1 /\ told[1] = mod[1]
      BY <1>3, <2>1
    <3>2. Len(b) \in Nat
      BY <1>8, <1>9
    <3>3. 1 \in 1..Len(told)
      BY <3>1
    <3>4. c[Len(b) + 1] = told[1] /\ Len(c) = Len(b) + 1
      BY <1>10, <3>1, <3>3
    <3> QED BY <3>1, <3>2, <3>4
  <2> QED BY <2>1, <2>2 DEF mod
<1>17. ASSUME "keyboard" \in borrowed, textResources # {}, NEW i \in 1..Keyboards
       PROVE  \E j \in 1..Len(KeyboardPart) : KeyboardPart[j] = Map(i, saved.keyboard, i)
  <2>1. KeyboardPart = c /\ restored = maps
    BY <1>6, <1>11, <1>17 DEF Optional
  <2>2. i \in 1..Len(restored) /\ Len(key) + i \in 1..Len(a)
    BY <1>4, <1>8, <2>1
  <2>3. c[Len(key) + i] = Map(i, saved.keyboard, i)
    BY <1>4, <1>8, <1>14, <2>1, <2>2
  <2>4. Len(key) + i \in 1..Len(c)
    BY <1>8, <1>9, <1>10, <2>2
  <2> QED BY <2>1, <2>3, <2>4
<1> QED BY <1>12, <1>13, <1>15, <1>16, <1>17 DEF S

LEMMA PointerPartIs ==
    /\ PointerPart \in Seq({c \in RestoreCalls : ~SetsField(c, "kbFocus")})
    /\ "pointer" \in borrowed /\ "button" \in holding /\ seat.ptrFocus = tx.target =>
          Len(PointerPart) >= 1 /\ PointerPart[1].op = "button"
<1> DEFINE S == {c \in RestoreCalls : ~SetsField(c, "kbFocus")}
           up == <<Do("button", "up")>>
           button == Optional("button" \in holding /\ seat.ptrFocus = tx.target, up)
           left == <<Do("event", "frame"), Set("ptrFocus", saved.ptrFocus)>>
           mouse == <<Set("mouse", saved.mouse)>>
<1>1. /\ Do("button", "up") \in S /\ Do("event", "frame") \in S /\ Do("event", "motion") \in S
      /\ Set("ptrFocus", saved.ptrFocus) \in S /\ Set("mouse", saved.mouse) \in S
  <2>1. /\ Do("button", "up") \in RestoreCalls /\ Do("event", "frame") \in RestoreCalls
        /\ Do("event", "motion") \in RestoreCalls
        /\ Set("ptrFocus", saved.ptrFocus) \in RestoreCalls
        /\ Set("mouse", saved.mouse) \in RestoreCalls
    BY DEF RestoreCalls
  <2>2. /\ ~SetsField(Do("button", "up"), "kbFocus") /\ ~SetsField(Do("event", "frame"), "kbFocus")
        /\ ~SetsField(Do("event", "motion"), "kbFocus")
        /\ \A v : ~SetsField(Set("ptrFocus", v), "kbFocus")
        /\ \A v : ~SetsField(Set("mouse", v), "kbFocus")
    BY DEF SetsField, Do, Set, Call
  <2> QED BY <2>1, <2>2
<1>2. up[1].op = "button"
  BY DEF Do, Call
<1> HIDE DEF S
<1>3. /\ up \in Seq(S) /\ Len(up) = 1 /\ left \in Seq(S) /\ mouse \in Seq(S)
      /\ MotionScript \in Seq(S)
  BY <1>1, ShortSeqs DEF MotionScript
<1> HIDE DEF up, left, mouse
<1>4. /\ button \in Seq(S)
      /\ "button" \in holding /\ seat.ptrFocus = tx.target => button = up
  BY <1>3, ShortSeqs DEF Optional
<1> HIDE DEF button
<1> DEFINE a == button \o left
           b == a \o MotionScript
           c == b \o mouse
<1>5. /\ a \in Seq(S) /\ Len(a) = Len(button) + Len(left)
      /\ Len(button) \in Nat /\ Len(left) \in Nat
      /\ \A i \in 1..Len(button) : a[i] = button[i]
  <2>1. button \in Seq(S) /\ left \in Seq(S)
    BY <1>3, <1>4
  <2> QED BY ONLY <2>1, ConcatAt
<1> HIDE DEF a
<1>6. /\ b \in Seq(S) /\ Len(b) = Len(a) + Len(MotionScript) /\ Len(MotionScript) \in Nat
      /\ \A i \in 1..Len(a) : b[i] = a[i]
  <2>1. a \in Seq(S) /\ MotionScript \in Seq(S)
    BY <1>3, <1>5
  <2> QED BY ONLY <2>1, ConcatAt
<1> HIDE DEF b
<1>7. /\ c \in Seq(S) /\ Len(c) = Len(b) + Len(mouse) /\ Len(mouse) \in Nat
      /\ \A i \in 1..Len(b) : c[i] = b[i]
  <2>1. b \in Seq(S) /\ mouse \in Seq(S)
    BY <1>3, <1>6
  <2> QED BY ONLY <2>1, ConcatAt
<1> HIDE DEF c
<1>8. PointerPart = Optional("pointer" \in borrowed, c)
  BY Zenon DEF PointerPart, button, up, a, b, c, left, mouse
<1>9. PointerPart \in Seq(S)
  BY <1>7, <1>8, ShortSeqs DEF Optional
<1>10. ASSUME "pointer" \in borrowed, "button" \in holding, seat.ptrFocus = tx.target
       PROVE  Len(PointerPart) >= 1 /\ PointerPart[1].op = "button"
  <2>1. PointerPart = c /\ button = up
    BY <1>4, <1>8, <1>10 DEF Optional
  <2>2. 1 \in 1..Len(button) /\ 1 \in 1..Len(a) /\ 1 \in 1..Len(b) /\ Len(c) >= 1
    <3>1. Len(button) = 1
      BY <1>3, <2>1
    <3>2. Len(a) \in Nat /\ Len(a) >= 1
      BY <1>5, <3>1
    <3>3. Len(b) \in Nat /\ Len(b) >= 1
      BY <1>6, <3>2
    <3> QED BY <1>7, <3>1, <3>2, <3>3
  <2>3. c[1] = up[1]
    BY <1>5, <1>6, <1>7, <2>1, <2>2
  <2> QED BY <1>2, <2>1, <2>2, <2>3 DEF up
<1> QED BY <1>9, <1>10 DEF S

(* Restoring, as it begins: what is known to be touched is put right, and  *)
(* the calls about the pointer do not disturb what those about the         *)
(* keyboard have done.                                                     *)
LEMMA RestoreBegins ==
    ASSUME TypesOK,
           <<tx.target, "key">> \in pressed =>
              "keyboard" \in borrowed /\ "key" \in holding /\ seat.kbFocus = tx.target,
           <<tx.target, "button">> \in pressed =>
              "pointer" \in borrowed /\ "button" \in holding /\ seat.ptrFocus = tx.target,
           \A r \in Resources \ textResources : keymap[r] = seat.keyboard,
           "keyboard" \notin borrowed =>
              /\ textResources = {}
              /\ seat.kbFocus = saved.kbFocus
              /\ seat.kbFocus # None => mods = "human",
           NEW from, GoOn(from, "restore", RestoreScript)
    PROVE  RestoreOK' /\ TodoOK'
<1> DEFINE A == KeyboardPart
           B == PointerPart
           V == <<Do("verify", None)>>
           S == RestoreCalls
           ab == A \o B
           s == ab \o V
<1>1. /\ phase' = "restore" /\ todo' = RestoreScript /\ tx' = tx /\ saved' = saved
      /\ borrowed' = borrowed /\ textResources' = textResources /\ holding' = holding
      /\ seat' = seat /\ mods' = mods /\ keymap' = keymap /\ pressed' = pressed
  BY DEF GoOn, worldVars, localVars
<1>2. A \in Seq(S) /\ B \in Seq(S)
  <2>1. /\ {c \in RestoreCalls : ~SetsField(c, "ptrFocus")} \subseteq S
        /\ {c \in RestoreCalls : ~SetsField(c, "kbFocus")} \subseteq S
    OBVIOUS
  <2>2. ASSUME NEW P, NEW t, P \subseteq S, t \in Seq(P) PROVE t \in Seq(S)
    <3> HIDE DEF S
    <3> QED BY <2>2
  <2> QED BY <2>1, <2>2, KeyboardPartIs, PointerPartIs
<1>3. /\ Len(A) \in Nat /\ \A i \in 1..Len(A) : ~SetsField(A[i], "ptrFocus")
      /\ Len(B) \in Nat /\ \A i \in 1..Len(B) : ~SetsField(B[i], "kbFocus")
  <2>1. \A i \in 1..Len(A) : A[i] \in {c \in RestoreCalls : ~SetsField(c, "ptrFocus")}
    BY KeyboardPartIs, EmptyAt
  <2>2. \A i \in 1..Len(B) : B[i] \in {c \in RestoreCalls : ~SetsField(c, "kbFocus")}
    BY PointerPartIs, EmptyAt
  <2> QED BY <1>2, <2>1, <2>2, EmptyAt
<1>4. /\ V \in Seq(S) /\ Len(V) = 1 /\ V[1].op = "verify"
  <2>1. Do("verify", None) \in S /\ Do("verify", None).op = "verify"
    BY DEF RestoreCalls, Do, Call
  <2> HIDE DEF S
  <2> QED BY <2>1, ShortSeqs
<1>5. /\ "keyboard" \notin borrowed => Len(A) = 0
      /\ "keyboard" \in borrowed /\ "key" \in holding /\ seat.kbFocus = tx.target =>
            Len(A) >= 1 /\ A[1].op = "key"
      /\ "keyboard" \in borrowed /\ saved.kbFocus # None =>
            Len(A) >= 1 /\ A[Len(A)] = Do("mods", "human")
      /\ "keyboard" \in borrowed /\ textResources # {} =>
            \A i \in 1..Keyboards : \E j \in 1..Len(A) : A[j] = Map(i, saved.keyboard, i)
      /\ "pointer" \in borrowed /\ "button" \in holding /\ seat.ptrFocus = tx.target =>
            Len(B) >= 1 /\ B[1].op = "button"
  BY KeyboardPartIs, PointerPartIs
<1>6. RestoreScript = s
  BY Zenon DEF RestoreScript, KeyboardPart, PointerPart
<1> HIDE DEF A, B, V, S
<1>7. /\ ab \in Seq(S) /\ Len(ab) = Len(A) + Len(B)
      /\ \A i \in 1..Len(A) : ab[i] = A[i]
      /\ \A i \in 1..Len(B) : ab[Len(A) + i] = B[i]
  BY ONLY <1>2, ConcatAt
<1> HIDE DEF ab
<1>8. /\ s \in Seq(S) /\ Len(s) = Len(ab) + 1
      /\ \A i \in 1..Len(ab) : s[i] = ab[i]
      /\ s[Len(ab) + 1] = V[1]
  <2>1. ab \in Seq(S) /\ V \in Seq(S)
    BY <1>4, <1>7
  <2>2. /\ s \in Seq(S) /\ Len(s) = Len(ab) + Len(V)
        /\ \A i \in 1..Len(ab) : s[i] = ab[i]
        /\ \A i \in 1..Len(V) : s[Len(ab) + i] = V[i]
    BY ONLY <2>1, ConcatAt
  <2>3. 1 \in 1..Len(V)
    BY <1>4
  <2> QED BY <1>4, <2>2, <2>3
<1> HIDE DEF s
<1>9. /\ \A i \in 1..Len(A) : i \in 1..Len(s) /\ s[i] = A[i]
      /\ \A i \in 1..Len(B) : Len(A) + i \in 1..Len(s) /\ s[Len(A) + i] = B[i]
      /\ Len(s) = Len(A) + Len(B) + 1 /\ Len(s) \in Nat
      /\ s[Len(s)].op = "verify" /\ ~SetsField(s[Len(s)], "kbFocus")
  <2>1. \A i \in 1..Len(A) : i \in 1..Len(s) /\ s[i] = A[i]
    BY <1>3, <1>7, <1>8
  <2>2. ASSUME NEW i \in 1..Len(B)
        PROVE  Len(A) + i \in 1..Len(s) /\ s[Len(A) + i] = B[i]
    <3>1. Len(A) + i \in 1..Len(ab)
      BY <1>3, <1>7
    <3> QED BY <1>3, <1>7, <1>8, <3>1
  <2>3. Len(s) = Len(A) + Len(B) + 1 /\ Len(s) \in Nat
    BY <1>3, <1>7, <1>8
  <2>4. s[Len(s)].op = "verify"
    BY <1>4, <1>8
  <2> QED BY <2>1, <2>2, <2>3, <2>4 DEF SetsField
<1>10. \A i \in (Len(A) + 1)..Len(s) : ~SetsField(s[i], "kbFocus")
  <2> TAKE i \in (Len(A) + 1)..Len(s)
  <2>1. CASE i = Len(s)
    BY <1>9, <2>1
  <2>2. CASE i # Len(s)
    <3>1. i - Len(A) \in 1..Len(B) /\ i = Len(A) + (i - Len(A))
      <4> DEFINE la == Len(A)
                 lb == Len(B)
                 ls == Len(s)
      <4>1. la \in Nat /\ lb \in Nat /\ ls = la + lb + 1 /\ i \in (la + 1)..ls /\ i # ls
        BY <1>3, <1>9, <2>2
      <4> HIDE DEF la, lb, ls
      <4>2. i - la \in 1..lb /\ i = la + (i - la)
        BY <4>1
      <4> QED BY <4>2 DEF la, lb
    <3>2. s[i] = B[i - Len(A)]
      BY <1>9, <3>1
    <3> QED BY <1>3, <3>1, <3>2
  <2> QED BY <2>1, <2>2
<1>11. KeysComeUp'
  <2>1. ASSUME <<tx.target, "key">> \in pressed
        PROVE  s # <<>> /\ s[1].op = "key" /\ seat.kbFocus = tx.target
    <3>1. Len(A) >= 1 /\ A[1].op = "key"
      BY <1>5, <2>1
    <3>2. 1 \in 1..Len(A)
      BY <1>3, <3>1
    <3> QED BY <1>8, <1>9, <2>1, <3>1, <3>2, EmptyAt
  <2>2. ASSUME <<tx.target, "button">> \in pressed
        PROVE  /\ \E j \in 1..Len(s) :
                     /\ s[j].op = "button"
                     /\ \A i \in 1..j : ~SetsField(s[i], "ptrFocus")
               /\ seat.ptrFocus = tx.target
    <3>1. Len(B) >= 1 /\ B[1].op = "button"
      BY <1>5, <2>2
    <3>2. 1 \in 1..Len(B)
      BY <1>3, <3>1
    <3>3. Len(A) + 1 \in 1..Len(s) /\ s[Len(A) + 1].op = "button"
      BY <1>9, <3>1, <3>2
    <3>4. \A i \in 1..(Len(A) + 1) : ~SetsField(s[i], "ptrFocus")
      <4> TAKE i \in 1..(Len(A) + 1)
      <4>1. CASE i = Len(A) + 1
        BY <3>3, <4>1 DEF SetsField
      <4>2. CASE i # Len(A) + 1
        <5>1. i \in 1..Len(A)
          BY <1>3, <4>2
        <5> QED BY <1>3, <1>9, <5>1
      <4> QED BY <4>1, <4>2
    <3> QED BY <2>2, <3>3, <3>4
  <2> QED BY <1>1, <1>6, <2>1, <2>2 DEF KeysComeUp, SetsField
<1>12. ModsComeBack'
  <2> SUFFICES ASSUME saved.kbFocus # None
               PROVE  \/ mods = "human" /\ \A i \in 1..Len(s) : ~SetsField(s[i], "kbFocus")
                      \/ \E j \in 1..Len(s) :
                            /\ s[j] = Do("mods", "human")
                            /\ \A i \in (j + 1)..Len(s) : ~SetsField(s[i], "kbFocus")
    BY <1>1, <1>6 DEF ModsComeBack, Final, SetsField, Do, Call
  <2>1. CASE "keyboard" \in borrowed
    <3>1. Len(A) \in 1..Len(A) /\ A[Len(A)] = Do("mods", "human")
      BY <1>3, <1>5, <2>1
    <3>2. Len(A) \in 1..Len(s) /\ s[Len(A)] = Do("mods", "human")
      BY <1>9, <3>1
    <3> QED BY <1>10, <3>2
  <2>2. CASE "keyboard" \notin borrowed
    <3>1. mods = "human" /\ Len(A) = 0
      BY <1>5, <2>2
    <3> QED BY <1>10, <3>1
  <2> QED BY <2>1, <2>2
<1>13. MapsComeBack'
  <2> SUFFICES ASSUME NEW r \in Resources
               PROVE  \/ keymap[r] = seat.keyboard
                      \/ \E j \in 1..Len(s) : s[j].op = "keymap" /\ s[j].arg.resource = r
    BY <1>1, <1>6 DEF MapsComeBack, Resources
  <2>1. CASE r \notin textResources
    BY <2>1
  <2>2. CASE r \in textResources
    <3>1. "keyboard" \in borrowed /\ textResources = Theirs /\ textResources # {}
      BY <2>2 DEF TypesOK
    <3>2. PICK i \in 1..Keyboards : r = <<tx.target, i>>
      BY <2>2, <3>1 DEF Theirs
    <3>3. PICK j \in 1..Len(A) : A[j] = Map(i, saved.keyboard, i)
      BY <1>5, <3>1
    <3>4. j \in 1..Len(s) /\ s[j] = Map(i, saved.keyboard, i)
      BY <1>9, <3>3
    <3>5. s[j].op = "keymap" /\ s[j].arg.resource = <<tx.target, i>>
      BY <3>4 DEF Map, Call
    <3> QED BY <3>2, <3>4, <3>5
  <2> QED BY <2>1, <2>2
<1>14. VerifyComes'
  <2>1. s # <<>>
    BY <1>3, <1>8, <1>9, EmptyAt
  <2> QED BY <1>1, <1>6, <1>9, <2>1 DEF VerifyComes
<1>15. TodoOK'
  <2>1. RestoreCalls' = RestoreCalls
    BY <1>1, SameCalls
  <2> QED BY <1>1, <1>6, <1>8, <2>1 DEF TodoOK, S
<1> QED BY <1>11, <1>12, <1>13, <1>14, <1>15 DEF RestoreOK

LEMMA NextPhaseStep ==
    ASSUME BorrowingInv, NextPhase
    PROVE  BorrowingInv'
<1>1. TypesOK /\ HumanOK /\ TargetOK /\ KnownOK /\ Begun /\ BorrowOK /\ ActOK
  BY DEF BorrowingInv
<1>2. /\ tx' = tx /\ saved' = saved /\ borrowed' = borrowed /\ textResources' = textResources
      /\ holding' = holding /\ failed' = failed /\ inputFaulted' = inputFaulted
      /\ reply' = reply /\ seat' = seat /\ mods' = mods /\ keymap' = keymap
      /\ pressed' = pressed /\ held' = held /\ todo = <<>> /\ Len(todo) = 0
      /\ phase \in {"begun", "borrow", "act", "cleanup"}
      /\ phase' \in {"borrow", "act", "cleanup", "restore"}
      /\ phase' \in {"borrow", "act"} => phase \in {"begun", "borrow"}
      /\ phase' = "cleanup" => phase = "act"
  BY EmptySeq DEF NextPhase, GoOn, worldVars, localVars
<1>3. /\ Theirs' = Theirs /\ NeedsKeyboard' = NeedsKeyboard /\ IsPointer(tx)' = IsPointer(tx)
      /\ ActCalls' = ActCalls /\ CleanupCalls' = CleanupCalls
  BY <1>2, SameCalls DEF IsPointer
<1>4. ASSUME TodoOK' PROVE TypesOK' /\ HumanOK' /\ TargetOK' /\ KnownOK'
  <2>1. TypesOK'
    BY <1>1, <1>2, <1>3, <1>4 DEF TypesOK, Resources, Usable, IsPointer
  <2>2. HumanOK' /\ TargetOK'
    BY <1>1, <1>2 DEF HumanOK, TargetOK, Resources
  <2>3. KnownOK'
    BY <1>1, <1>2 DEF KnownOK, Resources
  <2> QED BY <2>1, <2>2, <2>3
<1>5. CASE GoOn("begun", "borrow", BorrowScript)
  <2>1. phase' = "borrow" /\ BorrowOK' /\ TodoOK'
    BY <1>1, <1>5, BorrowBegins DEF GoOn
  <2> QED
    BY <1>4, <2>1 DEF BorrowingInv, Begun, ActOK, RestoreOK, SeatGivenBack
<1>6. CASE ~failed /\ GoOn("borrow", "act", ActScript)
  <2>1. phase = "borrow" /\ phase' = "act" /\ todo' = ActScript
    BY <1>6 DEF GoOn
  <2>2. TodoOK'
    BY <1>1, <1>3, <2>1, ActScriptIs DEF TodoOK, TypesOK
  <2>3. \A c : ~Before(c, Len(todo) + 1)
    BY <1>2 DEF Before
  <2>4. /\ ~\E j \in 1..Len(todo) : todo[j] = Do("check", "keyboard") /\ Final("kbFocus", j + 1)
        /\ ~\E j \in 1..Len(todo) : todo[j] = Do("check", "pointer") /\ Final("ptrFocus", j + 1)
    BY <1>2
  <2>5. /\ pressed = {}
        /\ NeedsKeyboard => "keyboard" \in borrowed /\ seat.kbFocus = tx.target
        /\ IsPointer(tx) => "pointer" \in borrowed /\ seat.ptrFocus = tx.target
    BY <1>1, <1>6, <2>1, <2>3, <2>4 DEF BorrowOK, Focusing
  <2>6. ActOK'
    BY <1>2, <1>3, <2>5 DEF ActOK
  <2> QED
    BY <1>4, <2>1, <2>2, <2>6 DEF BorrowingInv, Begun, BorrowOK, RestoreOK, SeatGivenBack
<1>7. CASE GoOn("act", "cleanup", CleanupScript)
  <2>1. phase = "act" /\ phase' = "cleanup" /\ todo' = CleanupScript
    BY <1>7 DEF GoOn
  <2>2. TodoOK'
    BY <1>3, <2>1, CleanupScriptIs DEF TodoOK
  <2>3. ActOK'
    BY <1>1, <1>2, <1>3, <2>1 DEF ActOK
  <2> QED
    BY <1>4, <2>1, <2>2, <2>3 DEF BorrowingInv, Begun, BorrowOK, RestoreOK, SeatGivenBack
<1>8. ASSUME NEW from \in {"borrow", "act", "cleanup"}, GoOn(from, "restore", RestoreScript)
      PROVE  BorrowingInv'
  <2>1. phase = from /\ phase' = "restore"
    BY <1>8 DEF GoOn
  <2>2. /\ <<tx.target, "key">> \in pressed =>
              "keyboard" \in borrowed /\ "key" \in holding /\ seat.kbFocus = tx.target
        /\ <<tx.target, "button">> \in pressed =>
              "pointer" \in borrowed /\ "button" \in holding /\ seat.ptrFocus = tx.target
        /\ \A r \in Resources \ textResources : keymap[r] = seat.keyboard
        /\ "keyboard" \notin borrowed =>
              /\ textResources = {}
              /\ seat.kbFocus = saved.kbFocus
              /\ seat.kbFocus # None => mods = "human"
    BY <1>1, <1>8, <2>1 DEF KnownOK, BorrowOK, ActOK, NeedsKeyboard
  <2>3. RestoreOK' /\ TodoOK'
    BY <1>1, <1>8, <2>2, RestoreBegins
  <2> QED
    BY <1>4, <2>1, <2>3 DEF BorrowingInv, Begun, BorrowOK, ActOK, SeatGivenBack
<1> QED BY <1>5, <1>6, <1>7, <1>8 DEF NextPhase
-----------------------------------------------------------------------------
(* The seat is given back.                                                 *)

LEMMA BorrowingStep ==
    ASSUME BorrowingInv, [Next]_vars
    PROVE  BorrowingInv'
<1>1. CASE SetSeat
  BY <1>1, SetSeatStep
<1>2. CASE Check
  BY <1>2, CheckStep
<1>3. CASE Send
  BY <1>3, SendStep
<1>4. CASE SetLocal
  BY <1>4, SetLocalStep
<1>5. CASE Verify
  BY <1>5, VerifyStep
<1>6. CASE NextPhase
  BY <1>6, NextPhaseStep
<1>7. CASE Return
  BY <1>7, ReturnStep
<1>8. ASSUME NEW k \in Kinds, NEW s \in Surfaces, NEW m \in BOOLEAN,
             NEW n \in 1..(MaxChars + MaxClicks),
             Begin([kind |-> k, target |-> s, mods |-> m, size |-> n])
      PROVE  BorrowingInv'
  <2> DEFINE q == [kind |-> k, target |-> s, mods |-> m, size |-> n]
  <2>1. q \in Requests /\ q.target \in Surfaces
    BY BorrowingAssumption DEF Requests, Focuses
  <2> HIDE DEF q
  <2>2. Begin(q)
    BY <1>8 DEF q
  <2> QED BY <2>1, <2>2, BeginStep
<1>9. CASE \/ \E s \in Seats : HumanMoves(s)
           \/ \E h \in Pressable : HumanPresses(h) \/ HumanReleases(h)
  BY <1>9, HumanStep
<1>10. CASE UNCHANGED vars
  <2>1. /\ UNCHANGED <<seat, mods, keymap, pressed, held, phase, todo, tx, saved, borrowed>>
        /\ UNCHANGED <<textResources, completed, holding, failed, inputFaulted, typed, reply>>
    BY <1>10 DEF vars, worldVars, txVars, localVars
  <2>2. /\ BorrowCalls' = BorrowCalls /\ ActCalls' = ActCalls
        /\ CleanupCalls' = CleanupCalls /\ RestoreCalls' = RestoreCalls
        /\ Theirs' = Theirs /\ NeedsKeyboard' = NeedsKeyboard
    BY <2>1, SameCalls
  <2>3. TypesOK'
    BY <2>1, <2>2 DEF BorrowingInv, TypesOK, TodoOK, Resources, Usable, IsPointer
  <2>4. HumanOK' /\ TargetOK' /\ KnownOK' /\ Begun' /\ SeatGivenBack'
    BY <2>1 DEF BorrowingInv, HumanOK, TargetOK, KnownOK, Begun, SeatGivenBack, Resources
  <2>5. BorrowOK' /\ ActOK'
    BY <2>1, <2>2
    DEF BorrowingInv, BorrowOK, ActOK, IsPointer, SetsField, Before, Focusing, Final
  <2>6. RestoreOK'
    BY <2>1
    DEF BorrowingInv, RestoreOK, KeysComeUp, ModsComeBack, MapsComeBack, VerifyComes, SetsField,
        Final, Resources
  <2> QED BY <2>3, <2>4, <2>5, <2>6 DEF BorrowingInv
<1> QED
  BY <1>1, <1>2, <1>3, <1>4, <1>5, <1>6, <1>7, <1>8, <1>9, <1>10 DEF Next, Transaction

LEMMA BorrowingInvariantHolds == Spec => []BorrowingInv
BY InitInv, BorrowingStep, PTL DEF Spec

(* Whatever call failed, and after whichever effects: at the end of a      *)
(* transaction the human has modifiers and key maps as before and nothing  *)
(* of the agent's stays pressed, or the guard is faulted                   *)
(* (InputTransaction::restore, pointerGesture, TextTransaction).           *)
THEOREM GivesBackKeysAndMaps == Spec => []SeatGivenBack
<1>1. BorrowingInv => SeatGivenBack
  BY DEF BorrowingInv
<1> QED BY <1>1, BorrowingInvariantHolds, PTL

(* A transaction presses nothing on, and shows its text map to, no client  *)
(* but its target's, and leaves what the human holds down alone            *)
(* (borrowKeyboard, borrowPointer, installTargetKeymap).                   *)
THEOREM TouchesTheTarget == Spec => []OnlyTheTarget
<1>1. ASSUME BorrowingInv PROVE OnlyTheTarget
  <2>1. HumanOK /\ TargetOK
    BY <1>1 DEF BorrowingInv
  <2>2. ASSUME phase # "idle" PROVE \A e \in pressed \ held : e[1] = tx.target
    BY <2>1, <2>2 DEF TargetOK
  <2> QED BY <2>1, <2>2 DEF HumanOK, TargetOK, OnlyTheTarget
<1> QED BY <1>1, BorrowingInvariantHolds, PTL

(* A transaction that ends without a fault leaves the human the devices    *)
(* and the focus it found, whatever calls failed on the way (restore()     *)
(* compares them, and nothing comes after the comparison).                 *)
THEOREM GivesBackSeat == Spec => SeatUnmoved
<1>1. ASSUME BorrowingInv, [Next]_vars, phase = "restore", phase' = "idle", ~inputFaulted
      PROVE  seat = saved
  <2>1. Return
    BY <1>1 DEF Next, Transaction, SetSeat, Check, Send, SetLocal, Verify, NextPhase, GoOn,
                After, Begin, HumanMoves, HumanPresses, HumanReleases, vars, txVars
  <2> QED BY <1>1, <2>1 DEF Return, BorrowingInv, RestoreOK, VerifyComes
<1>2. BorrowingInv /\ [Next]_vars =>
        [phase = "restore" /\ phase' = "idle" /\ ~inputFaulted => seat = saved]_vars
  BY <1>1
<1> QED BY <1>2, BorrowingInvariantHolds, PTL DEF Spec, SeatUnmoved
-----------------------------------------------------------------------------
(* The characters are counted.                                             *)

LEMMA Mod5 ==
    /\ \A d \in 0..4 : ((1 - 1 + d) % 5) + 1 = d + 1
    /\ \A i, d \in Nat : ((i + 1) - 1 + d) % 5 = (i - 1 + (d + 1)) % 5
    /\ \A i \in Nat : i >= 1 => (i - 1 + (4 + 1)) % 5 = (i - 1 + 0) % 5
OBVIOUS

(* The calls of a character, and which of them types it and counts it. *)
LEMMA CharCalls ==
    /\ CharScript[1].op = "mods" /\ CharScript[3].op = "key" /\ CharScript[4].op = "mods"
    /\ CharScript[2].op = "key" /\ CharScript[2].arg = "down" /\ CharScript[3].arg = "up"
    /\ CharScript[5].op = "local" /\ CharScript[5].arg = "count"
    /\ KeyScript[1].op = "mods" /\ KeyScript[3].op = "key" /\ KeyScript[4].op = "mods"
    /\ KeyScript[2].op = "key" /\ KeyScript[2].arg = "down" /\ KeyScript[3].arg = "up"
<1>1. /\ KeyScript[1] = Do("mods", "agent") /\ KeyScript[2] = Do("key", "down")
      /\ KeyScript[3] = Do("key", "up") /\ KeyScript[4] = Do("mods", "agent")
  BY DEF KeyScript
<1>2. /\ CharScript[1] = KeyScript[1] /\ CharScript[2] = KeyScript[2]
      /\ CharScript[3] = KeyScript[3] /\ CharScript[4] = KeyScript[4]
      /\ CharScript[5] = Do("local", "count")
  BY KeyScriptIs
<1> HIDE DEF KeyScript, CharScript
<1> QED BY <1>1, <1>2 DEF Do, Call

(* One call of the text, or of the key, is taken.                          *)
LEMMA TypingGoesOn ==
    ASSUME NEW d \in 0..4, Shifted, Len(todo) >= 1,
           \A i \in 1..Len(todo) : todo[i] = CharScript[((i - 1 + d) % 5) + 1]
    PROVE  /\ todo[1] = CharScript[d + 1]
           /\ d < 4 => \A i \in 1..Len(todo') : todo'[i] = CharScript[((i - 1 + (d + 1)) % 5) + 1]
           /\ d = 4 => \A i \in 1..Len(todo') : todo'[i] = CharScript[((i - 1 + 0) % 5) + 1]
<1>1. Len(todo) \in Nat
  BY DEF Shifted
<1>2. todo[1] = CharScript[d + 1]
  <2>1. 1 \in 1..Len(todo)
    BY <1>1
  <2>2. todo[1] = CharScript[((1 - 1 + d) % 5) + 1]
    BY <2>1
  <2> QED BY <2>2, Mod5
<1>3. ASSUME NEW i \in 1..Len(todo')
      PROVE  todo'[i] = CharScript[((i - 1 + (d + 1)) % 5) + 1]
  <2>1. i + 1 \in 1..Len(todo) /\ todo'[i] = todo[i + 1] /\ i \in Nat /\ d \in Nat
    BY DEF Shifted
  <2>2. todo[i + 1] = CharScript[(((i + 1) - 1 + d) % 5) + 1]
    BY <2>1
  <2>3. ((i + 1) - 1 + d) % 5 = (i - 1 + (d + 1)) % 5
    BY <2>1, Mod5
  <2> QED BY <2>1, <2>2, <2>3
<1>4. ASSUME d = 4, NEW i \in 1..Len(todo')
      PROVE  todo'[i] = CharScript[((i - 1 + 0) % 5) + 1]
  <2>1. todo'[i] = CharScript[((i - 1 + (4 + 1)) % 5) + 1]
    BY <1>3, <1>4
  <2>2. (i - 1 + (4 + 1)) % 5 = (i - 1 + 0) % 5
    BY Mod5
  <2> QED BY <2>1, <2>2
<1> QED BY <1>2, <1>3, <1>4

LEMMA CountInit == Init => CountOK
BY DEF Init, CountOK

(* A call that types nothing and counts nothing, outside of what a key or  *)
(* a text request does.                                                    *)
LEMMA CountUntouched ==
    ASSUME BorrowingInv, CountOK, NEW threw \in BOOLEAN, After(threw), tx' = tx, saved' = saved,
           reply' = reply, completed' = completed, typed' = typed, phase = "act" => IsPointer(tx)
    PROVE  CountOK'
<1>1. TypesOK
  BY DEF BorrowingInv
<1>2. /\ phase' = phase /\ phase \in {"borrow", "act", "cleanup", "restore"}
      /\ phase = "restore" => failed' = failed
      /\ threw /\ phase = "act" => todo' = <<>>
      /\ ~threw => failed' = failed
      /\ failed \in BOOLEAN
      /\ todo # <<>>
  <2>1. CASE threw
    BY <1>1, <2>1, CallTaken DEF TypesOK
  <2>2. CASE ~threw
    BY <1>1, <2>2, CallTaken DEF TypesOK
  <2> QED BY <2>1, <2>2
<1>3. IsPointer(tx) => tx.kind # "text" /\ tx.kind # "key"
  BY DEF IsPointer
<1>4. IsPointer(tx)' = IsPointer(tx)
  BY DEF IsPointer
<1>5. phase = "act" /\ failed' => todo' = <<>>
  <2>1. phase = "act" => ~failed
    BY <1>2 DEF CountOK
  <2> QED BY <1>2, <2>1
<1> QED BY <1>2, <1>3, <1>4, <1>5 DEF CountOK

LEMMA CountSend ==
    ASSUME BorrowingInv, CountOK, Send
    PROVE  CountOK'
<1>1. PICK threw \in BOOLEAN, done \in BOOLEAN :
          /\ threw \/ done
          /\ After(threw)
          /\ \/ SendKeymap(threw, done)
             \/ SendMods(threw, done)
             \/ SendPress("key", seat.kbFocus, threw, done)
             \/ SendPress("button", seat.ptrFocus, threw, done)
             \/ SendEvent(threw, done)
  BY DEF Send
<1>2. tx' = tx /\ saved' = saved /\ reply' = reply /\ completed' = completed
  BY DEF Send, localVars
<1>3. TypesOK
  BY DEF BorrowingInv
<1>4. /\ Head(todo) = todo[1] /\ Arg = todo[1].arg
      /\ typed' = IF done /\ todo[1].op = "key" /\ todo[1].arg = "down" THEN typed + 1 ELSE typed
      /\ todo[1].op \in {"keymap", "mods", "key", "button", "event"}
  <2>1. Head(todo) = todo[1]
    <3>1. CASE threw
      BY <1>1, <1>2, <1>3, <3>1, CallTaken
    <3>2. CASE ~threw
      BY <1>1, <1>2, <1>3, <3>2, CallTaken
    <3> QED BY <3>1, <3>2
  <2> QED
    BY <1>1, <2>1 DEF Arg, Calling, SendKeymap, SendMods, SendPress, SendEvent
<1>5. /\ phase' = phase /\ phase \in {"borrow", "act", "cleanup", "restore"}
      /\ phase = "act" => todo[1] \in ActCalls
      /\ phase = "cleanup" => todo[1] \in CleanupCalls
      /\ phase = "restore" => todo[1] \in RestoreCalls
      /\ phase = "borrow" => todo[1] \in BorrowCalls
      /\ Len(todo) \in Nat /\ Len(todo) >= 1 /\ todo # <<>>
      /\ ~threw => Shifted /\ failed' = failed
      /\ threw /\ phase = "act" => failed' /\ todo' = <<>>
  <2>1. CASE threw
    BY <1>1, <1>2, <1>3, <2>1, CallTaken
  <2>2. CASE ~threw
    BY <1>1, <1>2, <1>3, <2>2, CallTaken
  <2> QED BY <2>1, <2>2
<1>6. CASE phase # "act" \/ IsPointer(tx)
  <2>1. ~(todo[1].op = "key" /\ todo[1].arg = "down")
    BY <1>5, <1>6, BorrowCallIs, ActCallIs, CleanupCallIs, RestoreCallIs
  <2> QED BY <1>1, <1>2, <1>4, <1>6, <2>1, CountUntouched
<1>7. CASE phase = "act" /\ ~IsPointer(tx)
  <2>1. ~failed /\ tx.kind \in {"key", "text"}
    BY <1>5, <1>7 DEF CountOK, IsPointer
  <2>2. completed \in Nat /\ typed \in Nat /\ tx.size \in Nat
    BY <1>3 DEF CountOK, TypesOK, Requests
  <2>3. CASE tx.kind = "text"
    <3>1. PICK d \in 0..4 :
              /\ Len(todo) + d = 5 * (tx.size - completed)
              /\ typed = IF d >= 2 THEN completed + 1 ELSE completed
              /\ \A i \in 1..Len(todo) : todo[i] = CharScript[((i - 1 + d) % 5) + 1]
      BY <1>7, <2>1, <2>3 DEF CountOK, Typing
    <3>2. todo[1] = CharScript[d + 1]
      <4>1. 1 \in 1..Len(todo)
        BY <1>5
      <4>2. todo[1] = CharScript[((1 - 1 + d) % 5) + 1]
        BY <3>1, <4>1
      <4> QED BY <4>2, Mod5
    <3>3. /\ d # 4
          /\ todo[1].op = "key" /\ todo[1].arg = "down" <=> d = 1
      <4>1. d \in {0, 1, 2, 3, 4}
        OBVIOUS
      <4> HIDE DEF CharScript
      <4> QED BY <1>4, <3>2, <4>1, CharCalls
    <3>4. CASE threw
      <4>1. typed' \in Nat /\ completed <= typed' /\ typed' <= completed + 1
        BY <1>4, <2>2, <3>1, <3>3
      <4> QED BY <1>2, <1>5, <1>7, <2>3, <3>4, <4>1 DEF CountOK
    <3>5. CASE ~threw
      <4>1. \A i \in 1..Len(todo') : todo'[i] = CharScript[((i - 1 + (d + 1)) % 5) + 1]
        <5>1. d < 4 /\ Shifted /\ Len(todo) >= 1
          BY <1>5, <3>3, <3>5
        <5> QED BY <3>1, <5>1, TypingGoesOn
      <4>2. /\ d + 1 \in 0..4 /\ Len(todo') + (d + 1) = 5 * (tx.size - completed)
            /\ typed' = IF d + 1 >= 2 THEN completed + 1 ELSE completed
        <5>1. Len(todo') = Len(todo) - 1 /\ done
          BY <1>1, <1>5, <3>5 DEF Shifted
        <5>2. d + 1 \in 0..4 /\ Len(todo') + (d + 1) = 5 * (tx.size - completed)
          BY <1>5, <2>2, <3>1, <3>3, <5>1
        <5>3. typed' = IF d = 1 THEN typed + 1 ELSE typed
          BY <1>4, <3>3, <5>1
        <5> QED BY <2>2, <3>1, <5>2, <5>3
      <4>3. Typing'
        BY <1>2, <4>1, <4>2 DEF Typing
      <4>4. typed' \in Nat /\ completed <= typed' /\ typed' <= completed + 1
        BY <2>2, <4>2
      <4> QED BY <1>2, <1>5, <1>7, <2>1, <2>3, <3>5, <4>3, <4>4 DEF CountOK
    <3> QED BY <3>4, <3>5
  <2>4. CASE tx.kind = "key"
    <3>1. PICK d \in 0..4 :
              /\ Len(todo) + d = 4
              /\ typed = IF d >= 2 THEN 1 ELSE 0
              /\ \A i \in 1..Len(todo) : todo[i] = KeyScript[i + d]
      BY <1>7, <2>1, <2>4 DEF CountOK, OneKey
    <3>2. todo[1] = KeyScript[1 + d] /\ d \in {0, 1, 2, 3} /\ completed = 0
      <4>1. 1 \in 1..Len(todo)
        BY <1>5
      <4> QED BY <1>5, <2>2, <2>4, <3>1, <4>1 DEF CountOK
    <3>3. todo[1].op = "key" /\ todo[1].arg = "down" <=> d = 1
      <4> HIDE DEF KeyScript
      <4> QED BY <3>2, CharCalls
    <3>4. CASE threw
      <4>1. typed' \in Nat /\ completed <= typed' /\ typed' <= completed + 1
        BY <1>4, <2>2, <3>1, <3>2, <3>3
      <4> QED BY <1>2, <1>5, <1>7, <2>4, <3>4, <4>1 DEF CountOK
    <3>5. CASE ~threw
      <4>1. Len(todo') = Len(todo) - 1 /\ done
        BY <1>1, <1>5, <3>5 DEF Shifted
      <4>2. \A i \in 1..Len(todo') : todo'[i] = KeyScript[i + (d + 1)]
        <5> TAKE i \in 1..Len(todo')
        <5>1. i + 1 \in 1..Len(todo) /\ todo'[i] = todo[i + 1] /\ (i + 1) + d = i + (d + 1)
          BY <1>5, <3>5 DEF Shifted
        <5> QED BY <3>1, <5>1
      <4>3. /\ d + 1 \in 0..4 /\ Len(todo') + (d + 1) = 4
            /\ typed' = IF d + 1 >= 2 THEN 1 ELSE 0
        <5>1. typed' = IF d = 1 THEN typed + 1 ELSE typed
          BY <1>4, <3>3, <4>1
        <5> QED BY <1>5, <3>1, <3>2, <4>1, <5>1
      <4>4. OneKey'
        BY <4>2, <4>3 DEF OneKey
      <4>5. typed' \in Nat /\ completed <= typed' /\ typed' <= completed + 1
        BY <2>2, <3>2, <4>3
      <4> QED BY <1>2, <1>5, <1>7, <2>1, <2>4, <3>5, <4>4, <4>5 DEF CountOK
    <3> QED BY <3>4, <3>5
  <2> QED BY <2>1, <2>3, <2>4
<1> QED BY <1>5, <1>6, <1>7

LEMMA CountSetLocal ==
    ASSUME BorrowingInv, CountOK, SetLocal
    PROVE  CountOK'
<1>1. /\ After(FALSE) /\ Head(todo).op = "local" /\ tx' = tx /\ saved' = saved
      /\ completed' = IF Arg = "count" THEN completed + 1 ELSE completed
      /\ typed' = typed /\ reply' = reply
  BY DEF SetLocal, Calling
<1>2. TypesOK /\ FALSE \in BOOLEAN
  BY DEF BorrowingInv
<1>3. /\ phase' = phase /\ phase \in {"borrow", "act", "cleanup", "restore"}
      /\ phase = "act" => todo[1] \in ActCalls
      /\ phase = "cleanup" => todo[1] \in CleanupCalls
      /\ phase = "restore" => todo[1] \in RestoreCalls
      /\ phase = "borrow" => todo[1] \in BorrowCalls
      /\ Len(todo) \in Nat /\ Len(todo) >= 1 /\ todo # <<>>
      /\ Shifted /\ failed' = failed /\ Head(todo) = todo[1]
  BY <1>1, <1>2, CallTaken
<1>4. CASE Arg # "count"
  <2>1. completed' = completed
    BY <1>1, <1>4
  <2>2. phase = "act" => IsPointer(tx)
    <3> SUFFICES ASSUME phase = "act", ~IsPointer(tx) PROVE Arg = "count"
      BY <1>4
    <3>1. todo[1] \in KeyCalls /\ todo[1].op = "local"
      BY <1>1, <1>3 DEF ActCalls
    <3> QED BY <1>3, <3>1 DEF KeyCalls, Do, Call, Arg
  <2> QED BY <1>1, <1>2, <2>1, <2>2, CountUntouched
<1>5. CASE Arg = "count"
  <2>1. phase = "act" /\ ~IsPointer(tx) /\ todo[1].op = "local"
    <3>1. todo[1].op = "local" /\ todo[1].arg = "count"
      BY <1>1, <1>3, <1>5 DEF Arg
    <3> QED BY <1>3, <3>1, BorrowCallIs, ActCallIs, CleanupCallIs, RestoreCallIs
  <2>2. ~failed /\ tx.kind \in {"key", "text"}
    BY <1>3, <2>1 DEF CountOK, IsPointer
  <2>3. completed \in Nat /\ typed \in Nat /\ tx.size \in Nat
    BY <1>2 DEF CountOK, TypesOK, Requests
  <2>4. tx.kind = "text"
    <3> SUFFICES ASSUME tx.kind = "key" PROVE FALSE
      BY <2>2
    <3>1. PICK d \in 0..4 :
              Len(todo) + d = 4 /\ \A i \in 1..Len(todo) : todo[i] = KeyScript[i + d]
      BY <2>1, <2>2 DEF CountOK, OneKey
    <3>2. todo[1] = KeyScript[1 + d] /\ d \in {0, 1, 2, 3}
      <4>1. 1 \in 1..Len(todo)
        BY <1>3
      <4> QED BY <1>3, <3>1, <4>1
    <3> HIDE DEF KeyScript
    <3> QED BY <2>1, <3>2, CharCalls
  <2>5. PICK d \in 0..4 :
            /\ Len(todo) + d = 5 * (tx.size - completed)
            /\ typed = IF d >= 2 THEN completed + 1 ELSE completed
            /\ \A i \in 1..Len(todo) : todo[i] = CharScript[((i - 1 + d) % 5) + 1]
    BY <2>1, <2>2, <2>4 DEF CountOK, Typing
  <2>6. /\ todo[1] = CharScript[d + 1]
        /\ d = 4 => \A i \in 1..Len(todo') : todo'[i] = CharScript[((i - 1 + 0) % 5) + 1]
    BY <1>3, <2>5, TypingGoesOn
  <2>7. d = 4
    <3>1. d \in {0, 1, 2, 3, 4}
      OBVIOUS
    <3> HIDE DEF CharScript
    <3> QED BY <2>1, <2>6, <3>1, CharCalls
  <2>8. /\ completed' = completed + 1 /\ typed = completed + 1
        /\ Len(todo') + 0 = 5 * (tx.size - completed') /\ completed' <= tx.size
    <3>1. Len(todo') = Len(todo) - 1 /\ Len(todo') \in Nat
      BY <1>3 DEF Shifted
    <3>2. completed' = completed + 1 /\ typed = completed + 1
      BY <1>1, <1>5, <2>5, <2>7
    <3>3. Len(todo) + 4 = 5 * (tx.size - completed) /\ Len(todo) \in Nat /\ Len(todo) >= 1
      BY <1>3, <2>5, <2>7
    <3>4. completed + 1 <= tx.size /\ (Len(todo) - 1) + 0 = 5 * (tx.size - (completed + 1))
      BY <2>3, <3>3
    <3> QED BY <3>1, <3>2, <3>4
  <2>9. Typing'
    <3>1. 0 \in 0..4 /\ typed' = IF 0 >= 2 THEN completed' + 1 ELSE completed'
      BY <1>1, <2>8
    <3> QED BY <1>1, <2>6, <2>7, <2>8, <3>1 DEF Typing
  <2> QED BY <1>1, <1>3, <2>1, <2>2, <2>3, <2>4, <2>8, <2>9 DEF CountOK
<1> QED BY <1>4, <1>5

LEMMA CountNextPhase ==
    ASSUME BorrowingInv, CountOK, NextPhase
    PROVE  CountOK'
<1>1. /\ tx' = tx /\ failed' = failed /\ reply' = reply /\ typed' = typed
      /\ completed' = completed /\ todo = <<>> /\ Len(todo) = 0
      /\ phase # "idle" /\ phase' # "idle" /\ phase' # "begun"
  BY EmptySeq DEF NextPhase, GoOn, localVars
<1>2. /\ tx \in Requests /\ tx.size \in Nat /\ tx.kind \in Kinds /\ failed \in BOOLEAN
      /\ IsPointer(tx)' = IsPointer(tx)
  BY <1>1 DEF BorrowingInv, TypesOK, Requests, IsPointer
<1>3. CASE GoOn("begun", "borrow", BorrowScript)
  BY <1>1, <1>3 DEF GoOn, CountOK
<1>4. CASE ~failed /\ GoOn("borrow", "act", ActScript)
  <2>1. typed = 0 /\ completed = 0 /\ phase' = "act" /\ todo' = ActScript /\ ~failed
    BY <1>4 DEF GoOn, CountOK
  <2>2. ASSUME tx.kind = "text" PROVE Typing'
    <3>1. ActScript = Repeat(tx.size, CharScript)
      BY <2>2 DEF ActScript, IsPointer, CharScript
    <3>2. 5 \in {1, 2, 3, 4, 5}
      OBVIOUS
    <3>3. /\ Len(ActScript) = tx.size * 5
          /\ \A i \in 1..(tx.size * 5) : ActScript[i] = CharScript[((i - 1) % 5) + 1]
      BY <1>2, <3>1, <3>2, KeyScriptIs, RepeatAt
    <3>4. \A i \in 1..Len(todo') : todo'[i] = CharScript[((i - 1 + 0) % 5) + 1]
      <4>1. \A i \in Nat : i - 1 + 0 = i - 1
        OBVIOUS
      <4> QED BY <2>1, <3>3, <4>1
    <3>5. /\ Len(todo') + 0 = 5 * (tx'.size - completed') /\ 0 \in 0..4
          /\ typed' = IF 0 >= 2 THEN completed' + 1 ELSE completed'
      BY <1>1, <1>2, <2>1, <3>3
    <3> QED BY <3>4, <3>5 DEF Typing
  <2>3. ASSUME tx.kind = "key" PROVE OneKey'
    <3>1. ActScript = KeyScript
      BY <2>3 DEF ActScript, IsPointer
    <3>2. Len(todo') + 0 = 4 /\ 0 \in 0..4 /\ typed' = IF 0 >= 2 THEN 1 ELSE 0
      BY <1>1, <2>1, <3>1, KeyScriptIs
    <3>3. \A i \in 1..Len(todo') : todo'[i] = KeyScript[i + 0]
      <4>1. \A i \in 1..Len(todo') : i + 0 = i
        BY <3>2
      <4> QED BY <2>1, <3>1, <4>1
    <3> QED BY <3>2, <3>3 DEF OneKey
  <2> QED BY <1>1, <2>1, <2>2, <2>3 DEF CountOK
<1>5. CASE GoOn("borrow", "restore", RestoreScript) /\ failed
  BY <1>1, <1>5 DEF GoOn, CountOK
<1>6. CASE IsPointer(tx) /\ GoOn("act", "cleanup", CleanupScript)
  BY <1>1, <1>2, <1>6 DEF GoOn, CountOK
<1>7. CASE GoOn("act", "restore", RestoreScript)
  <2>1. ~failed /\ tx.kind = "text" => typed = tx.size
    <3> SUFFICES ASSUME ~failed, tx.kind = "text" PROVE typed = tx.size
      OBVIOUS
    <3>1. phase = "act"
      BY <1>7 DEF GoOn
    <3>2. PICK d \in 0..4 : /\ Len(todo) + d = 5 * (tx.size - completed)
                            /\ typed = IF d >= 2 THEN completed + 1 ELSE completed
      BY <3>1 DEF CountOK, Typing
    <3>3. completed \in Nat
      BY DEF CountOK
    <3> QED BY <1>1, <1>2, <3>2, <3>3
  <2> QED BY <1>1, <1>7, <2>1 DEF GoOn, CountOK
<1>8. CASE GoOn("cleanup", "restore", RestoreScript)
  <2>1. tx.kind # "text"
    BY <1>8 DEF GoOn, CountOK, IsPointer
  <2> QED BY <1>1, <1>8, <2>1 DEF GoOn, CountOK
<1> QED BY <1>3, <1>4, <1>5, <1>6, <1>7, <1>8 DEF NextPhase

LEMMA CountStep ==
    ASSUME BorrowingInv, CountOK, [Next]_vars
    PROVE  CountOK'
<1>1. CASE SetSeat
  <2>1. PICK threw \in BOOLEAN : After(threw)
    BY <1>1 DEF SetSeat
  <2>2. /\ Head(todo).op = "set" /\ tx' = tx /\ saved' = saved /\ reply' = reply
        /\ completed' = completed /\ typed' = typed
    BY <1>1 DEF SetSeat, Calling, localVars
  <2>3. phase # "act"
    <3>1. TypesOK
      BY DEF BorrowingInv
    <3>2. Head(todo) = todo[1] /\ (phase = "act" => todo[1] \in ActCalls)
      <4>1. CASE threw
        BY <2>1, <2>2, <3>1, <4>1, CallTaken
      <4>2. CASE ~threw
        BY <2>1, <2>2, <3>1, <4>2, CallTaken
      <4> QED BY <4>1, <4>2
    <3> QED BY <2>2, <3>2, ActCallIs
  <2> QED BY <2>1, <2>2, <2>3, CountUntouched
<1>2. CASE Check
  <2>1. PICK threw \in BOOLEAN : After(threw)
    BY <1>2 DEF Check
  <2>2. /\ Head(todo).op = "check" /\ tx' = tx /\ saved' = saved /\ reply' = reply
        /\ completed' = completed /\ typed' = typed
    BY <1>2 DEF Check, Calling
  <2>3. phase # "act"
    <3>1. TypesOK
      BY DEF BorrowingInv
    <3>2. Head(todo) = todo[1] /\ (phase = "act" => todo[1] \in ActCalls)
      <4>1. CASE threw
        BY <2>1, <2>2, <3>1, <4>1, CallTaken
      <4>2. CASE ~threw
        BY <2>1, <2>2, <3>1, <4>2, CallTaken
      <4> QED BY <4>1, <4>2
    <3> QED BY <2>2, <3>2, ActCallIs
  <2> QED BY <2>1, <2>2, <2>3, CountUntouched
<1>3. CASE Send
  BY <1>3, CountSend
<1>4. CASE SetLocal
  BY <1>4, CountSetLocal
<1>5. CASE Verify
  <2>1. /\ phase' = phase /\ failed' = failed /\ tx' = tx /\ completed' = completed
        /\ typed' = typed /\ reply' = reply
    BY <1>5 DEF Verify, localVars
  <2>2. BorrowingInv' /\ RestoreCalls' = RestoreCalls /\ todo # <<>> /\ Head(todo).op = "verify"
    <3>1. saved' = saved /\ todo # <<>> /\ Head(todo).op = "verify"
      BY <1>5 DEF Verify, Calling, localVars
    <3> QED BY <1>5, <2>1, <3>1, VerifyStep, SameCalls
  <2>3. phase # "act"
    <3> SUFFICES ASSUME phase = "act" PROVE FALSE
      OBVIOUS
    <3>1. todo \in Seq(ActCalls)
      BY DEF BorrowingInv, TypesOK, TodoOK
    <3>2. Head(todo) \in ActCalls
      BY <2>2, <3>1, TailAt
    <3> QED BY <2>2, <3>2, ActCallIs
  <2> QED BY <2>1, <2>3 DEF CountOK, IsPointer
<1>6. CASE NextPhase
  BY <1>6, CountNextPhase
<1>7. CASE Return
  BY <1>7 DEF Return, localVars, CountOK
<1>8. ASSUME NEW q \in Requests, Begin(q) PROVE CountOK'
  <2>1. q.size \in Nat
    BY DEF Requests
  <2> QED BY <1>8, <2>1 DEF Begin, CountOK
<1>9. ASSUME NEW k \in Kinds, NEW s \in Surfaces, NEW m \in BOOLEAN,
             NEW n \in 1..(MaxChars + MaxClicks)
      PROVE  [kind |-> k, target |-> s, mods |-> m, size |-> n] \in Requests
  BY BorrowingAssumption DEF Requests, Focuses
<1>10. CASE \/ \E s \in Seats : HumanMoves(s)
            \/ \E h \in Pressable : HumanPresses(h) \/ HumanReleases(h)
  BY <1>10 DEF HumanMoves, HumanPresses, HumanReleases, txVars, localVars, CountOK
<1>11. CASE UNCHANGED vars
  BY <1>11
  DEF vars, worldVars, txVars, localVars, CountOK, Typing, OneKey, CharScript, KeyScript, IsPointer
<1> QED
  BY <1>1, <1>2, <1>3, <1>4, <1>5, <1>6, <1>7, <1>8, <1>9, <1>10, <1>11
  DEF Next, Transaction

LEMMA CountInvariant == Spec => [](BorrowingInv /\ CountOK)
<1>1. Init => BorrowingInv /\ CountOK
  BY InitInv, CountInit
<1>2. (BorrowingInv /\ CountOK) /\ [Next]_vars => (BorrowingInv /\ CountOK)'
  BY BorrowingStep, CountStep
<1> QED BY <1>1, <1>2, PTL DEF Spec

(* A request that is reported as done was done in full, and of one that    *)
(* failed the count of characters is right up to the one in flight         *)
(* (TextTransaction, finish).                                              *)
THEOREM CountsHonestly == Spec => []HonestReply
<1>1. BorrowingInv /\ CountOK => HonestReply
  BY DEF CountOK, HonestReply
<1> QED BY <1>1, CountInvariant, PTL

(* The state has its types, and no more characters are typed or counted    *)
(* than a request may have.                                                *)
THEOREM BorrowingTypes == Spec => []TypeOK
<1>1. ASSUME BorrowingInv, CountOK PROVE TypeOK
  <2>1. TypesOK
    BY <1>1 DEF BorrowingInv
  <2>2. MaxChars \in Nat /\ (tx.kind = "text" => tx.size <= MaxChars)
    BY <2>1, BorrowingAssumption DEF TypesOK, Usable
  <2>3. completed \in 0..MaxChars /\ typed \in 0..(MaxChars + 1)
    <3>1. /\ completed \in Nat /\ typed \in Nat /\ typed <= completed + 1
          /\ completed <= IF tx.kind = "text" THEN tx.size ELSE 0
      BY <1>1 DEF CountOK
    <3>2. tx.size \in Nat
      BY <2>1 DEF TypesOK, Requests
    <3> QED BY <2>2, <3>1, <3>2
  <2> QED BY <2>1, <2>3 DEF TypesOK, TypeOK
<1> QED BY <1>1, CountInvariant, PTL
=============================================================================
