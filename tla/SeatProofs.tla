----------------------------- MODULE SeatProofs -----------------------------
(***************************************************************************)
(* The agent's seat belongs to its lease and remembers only serials of     *)
(* that lease; a popup gets a grab only for such a serial; and keys follow *)
(* the newest grab: for any number of windows, popups, tokens and serials. *)
(***************************************************************************)
EXTENDS AgentSeatProps, SequenceTheorems, FiniteSetTheorems, TLAPS

Distinct(log) == \A i, j \in DOMAIN log : log[i].serial = log[j].serial => i = j

Current(log, token, root, is) ==
    \A i \in DOMAIN log :
        /\ log[i].token = token /\ log[i].root = root
        /\ log[i].serial \in DOMAIN is /\ is[log[i].serial] = token

(* A seat s that has the shape of one, whatever its popups, and goes with  *)
(* the leases ls, the popups pu and the issued serials is.                 *)
Shaped(s) ==
    s \in [token : Tokens \cup {None}, root : Windows \cup {None},
           focus : Surfaces \cup {None}, serials : Seq(SerialRecords), popups : {s.popups}]

OfLease(s, ls) ==
    /\ s.token = None => s = NoSeat
    /\ s.token # None =>
        /\ s.token \in DOMAIN ls
        /\ s.root # None /\ ls[s.token].window = s.root

InFocus(s, pu) ==
    /\ s.focus \in Popups => pu[s.focus] # None
    /\ s.focus \in Windows => s.focus = s.root

Fits(s, ls, pu, is) ==
    /\ Shaped(s)
    /\ OfLease(s, ls)
    /\ InFocus(s, pu)
    /\ Current(s.serials, s.token, s.root, is)
    /\ Distinct(s.serials)

WorldOK ==
    /\ DOMAIN leases \subseteq Tokens /\ leases \in [DOMAIN leases -> Leases]
    /\ mapped \subseteq Windows /\ visible \subseteq mapped
    /\ popup \in [Popups -> {None} \cup PopupStates]

SeatInv == WorldOK /\ Fits(seat, leases, popup, issued)
-----------------------------------------------------------------------------
(* The empty seat fits everything. *)
LEMMA NoSeatFits == \A ls, pu, is : Fits(NoSeat, ls, pu, is)
<1>1. Shaped(NoSeat)
  BY DEF Shaped, NoSeat
<1>2. ASSUME NEW ls, NEW pu, NEW is PROVE Fits(NoSeat, ls, pu, is)
  <2>1. OfLease(NoSeat, ls) /\ InFocus(NoSeat, pu)
    BY SeatAssumption DEF OfLease, InFocus, NoSeat
  <2>2. NoSeat.serials = <<>>
    BY DEF NoSeat
  <2>3. Current(<<>>, NoSeat.token, NoSeat.root, is) /\ Distinct(<<>>)
    BY DEF Current, Distinct
  <2> QED BY <1>1, <2>1, <2>2, <2>3 DEF Fits
<1> QED BY <1>2

(* A new serial that is not in the record: it stays a record of different  *)
(* serials, old ones and the new one.                                      *)
LEMMA IssueKeeps ==
    ASSUME NEW log \in Seq(SerialRecords), NEW r \in SerialRecords, Distinct(log),
           \A i \in DOMAIN log : log[i].serial # r.serial
    PROVE  /\ Issue(log, r) \in Seq(SerialRecords)
           /\ Distinct(Issue(log, r))
           /\ \A i \in DOMAIN Issue(log, r) :
                 Issue(log, r)[i] = r \/ \E j \in DOMAIN log : Issue(log, r)[i] = log[j]
<1> DEFINE rest == IF Len(log) = MaxSerials THEN Tail(log) ELSE log
           d == IF Len(log) = MaxSerials THEN 1 ELSE 0
<1>1. Len(log) = MaxSerials => log # <<>>
  BY SeatAssumption
<1>2. /\ rest \in Seq(SerialRecords) /\ Len(rest) = Len(log) - d
      /\ \A i \in 1..Len(rest) : rest[i] = log[i + d]
  BY <1>1
<1>3. d \in {0, 1} /\ Len(log) \in Nat /\ DOMAIN log = 1..Len(log)
  OBVIOUS
<1> HIDE DEF rest, d
<1> DEFINE new == Append(rest, r)
<1>4. /\ new \in Seq(SerialRecords) /\ DOMAIN new = 1..(Len(log) - d + 1)
      /\ \A i \in 1..(Len(log) - d) : new[i] = log[i + d]
      /\ new[Len(log) - d + 1] = r
  BY <1>2
<1>5. Issue(log, r) = new
  BY DEF Issue, rest
<1> HIDE DEF new
<1>6. Distinct(new)
  <2> SUFFICES ASSUME NEW i \in DOMAIN new, NEW j \in DOMAIN new,
                      new[i].serial = new[j].serial
               PROVE  i = j
    BY DEF Distinct
  <2> DEFINE top == Len(log) - d + 1
  <2>1. i \in 1..top /\ j \in 1..top /\ top \in Int
    BY <1>3, <1>4
  <2>2. CASE i # top /\ j # top
    <3>1. i \in 1..(Len(log) - d) /\ j \in 1..(Len(log) - d)
      BY <1>3, <2>1, <2>2
    <3>2. i + d \in DOMAIN log /\ j + d \in DOMAIN log
      BY <1>3, <3>1
    <3>3. log[i + d].serial = log[j + d].serial
      BY <1>4, <3>1
    <3>4. i + d = j + d
      BY <3>2, <3>3 DEF Distinct
    <3> QED BY <1>3, <2>1, <3>4
  <2>3. ASSUME NEW m \in 1..top, m # top PROVE new[m].serial # r.serial
    <3>1. m \in 1..(Len(log) - d) /\ m + d \in DOMAIN log
      BY <1>3, <2>3
    <3> QED BY <1>4, <3>1
  <2> QED BY <1>4, <2>1, <2>2, <2>3
<1>7. \A i \in DOMAIN new : new[i] = r \/ \E j \in DOMAIN log : new[i] = log[j]
  BY <1>3, <1>4
<1> QED BY <1>4, <1>5, <1>6, <1>7

(* A serial that is spent: the others stay. *)
LEMMA RemoveKeeps ==
    ASSUME NEW log \in Seq(SerialRecords), NEW k \in DOMAIN log, Distinct(log)
    PROVE  /\ RemoveAt(log, k) \in Seq(SerialRecords)
           /\ Distinct(RemoveAt(log, k))
           /\ \A i \in DOMAIN RemoveAt(log, k) :
                 \E j \in DOMAIN log \ {k} : RemoveAt(log, k)[i] = log[j]
<1> DEFINE a == SubSeq(log, 1, k - 1)
           b == SubSeq(log, k + 1, Len(log))
           new == a \o b
           skip(i) == IF i < k THEN i ELSE i + 1
<1>1. Len(log) \in Nat /\ k \in 1..Len(log) /\ DOMAIN log = 1..Len(log)
  OBVIOUS
<1>2. a \in Seq(SerialRecords) /\ Len(a) = k - 1 /\ \A i \in 1..(k - 1) : a[i] = log[i]
  BY <1>1
<1>3. /\ b \in Seq(SerialRecords) /\ Len(b) = Len(log) - k
      /\ \A i \in 1..(Len(log) - k) : b[i] = log[k + i]
  BY <1>1
<1>4. /\ new \in Seq(SerialRecords) /\ DOMAIN new = 1..(Len(log) - 1)
      /\ \A i \in 1..(Len(log) - 1) : new[i] = log[skip(i)]
  <2> HIDE DEF a, b
  <2>1. /\ a \o b \in Seq(SerialRecords) /\ Len(a \o b) = Len(log) - 1
        /\ DOMAIN (a \o b) = 1..Len(a \o b)
    <3>1. a \o b \in Seq(SerialRecords) /\ Len(a \o b) = Len(a) + Len(b)
      BY <1>2, <1>3, ConcatProperties
    <3>2. Len(a) + Len(b) = Len(log) - 1
      BY <1>1, <1>2, <1>3
    <3> QED BY <3>1, <3>2
  <2>2. ASSUME NEW i \in 1..(Len(log) - 1) PROVE (a \o b)[i] = log[skip(i)]
    <3>1. CASE i < k
      <4>1. (a \o b)[i] = a[i] /\ i \in 1..(k - 1)
        BY <1>1, <1>2, <1>3, <3>1
      <4> QED BY <1>2, <3>1, <4>1
    <3>2. CASE ~(i < k)
      <4> DEFINE m == i - (k - 1)
      <4>1. (a \o b)[i] = b[m] /\ m \in 1..(Len(log) - k) /\ k + m = i + 1
        BY <1>1, <1>2, <1>3, <3>2
      <4>2. b[m] = log[k + m]
        BY <1>3, <4>1
      <4> QED BY <3>2, <4>1, <4>2
    <3> QED BY <3>1, <3>2
  <2> QED BY <2>1, <2>2
<1>5. RemoveAt(log, k) = new
  BY DEF RemoveAt
<1> HIDE DEF new
<1>6. Distinct(new)
  <2> SUFFICES ASSUME NEW i \in DOMAIN new, NEW j \in DOMAIN new,
                      new[i].serial = new[j].serial
               PROVE  i = j
    BY DEF Distinct
  <2>1. i \in 1..(Len(log) - 1) /\ j \in 1..(Len(log) - 1)
    BY <1>4
  <2>2. skip(i) \in DOMAIN log /\ skip(j) \in DOMAIN log
    BY <1>1, <2>1
  <2>3. log[skip(i)].serial = log[skip(j)].serial
    BY <1>4, <2>1
  <2>4. skip(i) = skip(j)
    BY <2>2, <2>3 DEF Distinct
  <2> QED BY <1>1, <2>1, <2>4
<1>7. ASSUME NEW i \in DOMAIN new PROVE \E j \in DOMAIN log \ {k} : new[i] = log[j]
  <2>1. i \in 1..(Len(log) - 1) /\ new[i] = log[skip(i)]
    BY <1>4
  <2>2. skip(i) \in DOMAIN log \ {k}
    BY <1>1, <2>1
  <2> QED BY <2>1, <2>2
<1> QED BY <1>4, <1>5, <1>6, <1>7
-----------------------------------------------------------------------------
(* After expire() and tick() the seat has a lease that stands. *)
LEMMA TickedFits ==
    ASSUME SeatInv
    PROVE  /\ Fits(Ticked, LiveLeases, popup, IssuedFor(Live))
           /\ Ticked.token # None => Ticked.token \in Live
<1>1. CASE Ticked = NoSeat
  BY <1>1, NoSeatFits DEF NoSeat
<1>2. CASE Ticked # NoSeat
  <2>1. Ticked = seat /\ Fits(seat, leases, popup, issued)
    BY <1>2 DEF Ticked, SeatInv
  <2>2. seat.token # None
    BY <1>2, <2>1 DEF Fits, OfLease
  <2>3. seat.token \in Live
    BY <1>2, <2>1, <2>2 DEF Ticked, Authorized
  <2>4. OfLease(seat, LiveLeases)
    BY <2>1, <2>2, <2>3 DEF Fits, OfLease, LiveLeases
  <2>5. Current(seat.serials, seat.token, seat.root, IssuedFor(Live))
    BY <2>1, <2>3 DEF Fits, Current, IssuedFor
  <2> QED BY <2>1, <2>3, <2>4, <2>5 DEF Fits
<1> QED BY <1>1, <1>2

(* begin() brings the seat to the lease. *)
LEMMA BegunFits ==
    ASSUME SeatInv, NEW t \in Tokens, NEW x, MayDeliver(t, x)
    PROVE  LET w == leases[t].window
               s == Begun(t, w)
           IN  /\ w \in Windows /\ t \in Live
               /\ Fits(s, LiveLeases, popup, IssuedFor(Live))
               /\ s.token = t /\ s.root = w
<1> DEFINE w == leases[t].window
           s == IF Ticked.token = t /\ Ticked.root = w THEN Ticked
                ELSE [NoSeat EXCEPT !.token = t, !.root = w]
<1>1. w \in Windows /\ t \in Live /\ t # None /\ w # None
  BY SeatAssumption DEF MayDeliver, SeatInv, WorldOK
<1>2. LiveLeases[t].window = w /\ t \in DOMAIN LiveLeases
  BY <1>1 DEF LiveLeases
<1>3. Fits(s, LiveLeases, popup, IssuedFor(Live)) /\ s.token = t /\ s.root = w
  <2>1. CASE Ticked.token = t /\ Ticked.root = w
    BY <2>1, TickedFits
  <2>2. CASE ~(Ticked.token = t /\ Ticked.root = w)
    <3>1. s = [token |-> t, root |-> w, focus |-> None, serials |-> <<>>, popups |-> <<>>]
      BY <2>2 DEF NoSeat
    <3> HIDE DEF s
    <3>2. Shaped(s) /\ OfLease(s, LiveLeases) /\ InFocus(s, popup)
      BY <1>1, <1>2, <3>1, SeatAssumption DEF Shaped, OfLease, InFocus
    <3>3. s.serials = <<>> /\ s.token = t /\ s.root = w
      BY <3>1
    <3>4. Current(<<>>, t, w, IssuedFor(Live)) /\ Distinct(<<>>)
      BY DEF Current, Distinct
    <3> QED BY <3>2, <3>3, <3>4 DEF Fits
  <2> QED BY <2>1, <2>2
<1>4. PICK pps : Begun(t, w) = [s EXCEPT !.popups = pps]
  BY DEF Begun
<1> HIDE DEF s, w
<1> DEFINE b == [s EXCEPT !.popups = pps]
<1>5. Shaped(s)
  BY <1>3 DEF Fits
<1>6. /\ Shaped(b) /\ b.token = t /\ b.root = w
      /\ b.focus = s.focus /\ b.serials = s.serials
  BY <1>3, <1>5 DEF Shaped
<1> HIDE DEF b
<1>7. Fits(b, LiveLeases, popup, IssuedFor(Live))
  BY <1>1, <1>3, <1>6 DEF Fits, OfLease, InFocus
<1> QED BY <1>1, <1>4, <1>6, <1>7 DEF b, w
-----------------------------------------------------------------------------
(* A seat that fits still does if its lease keeps its window, its serials  *)
(* their token, and the surface in focus is there.                         *)
LEMMA FitsAlso ==
    ASSUME NEW s, NEW ls, NEW pu, NEW is, Fits(s, ls, pu, is), NEW lt, NEW pv, NEW it,
           s.token # None => s.token \in DOMAIN lt /\ lt[s.token].window = ls[s.token].window,
           \A n \in DOMAIN is : is[n] = s.token => n \in DOMAIN it /\ it[n] = s.token,
           s.focus \in Popups => pv[s.focus] # None
    PROVE  Fits(s, lt, pv, it)
<1>1. OfLease(s, lt) /\ InFocus(s, pv)
  BY DEF Fits, OfLease, InFocus
<1>2. Current(s.serials, s.token, s.root, it)
  BY DEF Fits, Current
<1> QED BY <1>1, <1>2 DEF Fits

(* Popups that come, change or go elsewhere leave the seat alone. *)
LEMMA PopupsKeepSeat ==
    ASSUME SeatInv, UNCHANGED <<leases, seat, mapped, visible, issued>>,
           popup' \in [Popups -> {None} \cup PopupStates],
           \A p \in Popups : popup[p] # None => popup'[p] # None
    PROVE  SeatInv'
<1>1. seat.focus \in Popups => popup'[seat.focus] # None
  BY DEF SeatInv, Fits, InFocus
<1>2. seat.token # None => seat.token \in DOMAIN leases
  BY DEF SeatInv, Fits, OfLease
<1>3. Fits(seat, leases, popup', issued)
  BY <1>1, <1>2, FitsAlso DEF SeatInv
<1> QED BY <1>3 DEF SeatInv, WorldOK

LEMMA LeasesKeepShape ==
    ASSUME SeatInv, NEW T \in SUBSET DOMAIN leases
    PROVE  /\ DOMAIN [t \in T |-> leases[t]] \subseteq Tokens
           /\ [t \in T |-> leases[t]] \in [DOMAIN [t \in T |-> leases[t]] -> Leases]
BY DEF SeatInv, WorldOK

(* Requests of the broker. *)
LEMMA TickKeeps == ASSUME SeatInv, Tick PROVE SeatInv'
<1>1. Live \in SUBSET DOMAIN leases
  BY DEF Live
<1>2. WorldOK'
  BY <1>1, LeasesKeepShape DEF Tick, LiveLeases, SeatInv, WorldOK, worldVars
<1> QED BY <1>2, TickedFits DEF Tick, SeatInv, worldVars

LEMMA ClearKeeps == ASSUME SeatInv, Clear PROVE SeatInv'
BY NoSeatFits DEF Clear, SeatInv, WorldOK, worldVars

LEMMA AuthorizeKeeps ==
    ASSUME SeatInv, NEW t \in Tokens, NEW w \in Windows, Authorize(t, w)
    PROVE  SeatInv'
<1>1. Fits(Ticked, LiveLeases, popup, IssuedFor(Live))
      /\ (Ticked.token # None => Ticked.token \in Live)
  BY TickedFits
<1>2. WorldOK'
  BY DEF Authorize, Live, Leases, SeatInv, WorldOK, worldVars
<1>3. CASE Ticked.token = t
  BY <1>2, <1>3, NoSeatFits DEF Authorize, Revoked, SeatInv
<1>4. CASE Ticked.token # t
  <2>1. seat' = Ticked
    BY <1>4 DEF Authorize, Revoked
  <2>2. Ticked.token # None => /\ Ticked.token \in DOMAIN leases'
                               /\ leases'[Ticked.token].window = LiveLeases[Ticked.token].window
    BY <1>1, <1>4 DEF Authorize, LiveLeases
  <2>3. \A n \in DOMAIN IssuedFor(Live) : IssuedFor(Live)[n] = Ticked.token =>
            n \in DOMAIN issued' /\ issued'[n] = Ticked.token
    BY <1>4 DEF Authorize, IssuedFor
  <2>4. Ticked.focus \in Popups => popup'[Ticked.focus] # None
    BY <1>1 DEF Fits, InFocus, Authorize, worldVars
  <2>5. Fits(Ticked, leases', popup', issued')
    BY <1>1, <2>2, <2>3, <2>4, FitsAlso
  <2> QED BY <1>2, <2>1, <2>5 DEF SeatInv
<1> QED BY <1>3, <1>4

LEMMA RevokeKeeps == ASSUME SeatInv, NEW t \in Tokens, Revoke(t) PROVE SeatInv'
<1>1. Fits(Ticked, LiveLeases, popup, IssuedFor(Live))
      /\ (Ticked.token # None => Ticked.token \in Live)
  BY TickedFits
<1>2. Live \ {t} \in SUBSET DOMAIN leases
  BY DEF Live
<1>3. WorldOK'
  BY <1>2, LeasesKeepShape DEF Revoke, SeatInv, WorldOK, worldVars
<1>4. CASE Ticked.token = t
  BY <1>3, <1>4, NoSeatFits DEF Revoke, Revoked, SeatInv
<1>5. CASE Ticked.token # t
  <2>1. seat' = Ticked
    BY <1>5 DEF Revoke, Revoked
  <2>2. Ticked.token # None => /\ Ticked.token \in DOMAIN leases'
                               /\ leases'[Ticked.token].window = LiveLeases[Ticked.token].window
    BY <1>1, <1>5 DEF Revoke, LiveLeases
  <2>3. \A n \in DOMAIN IssuedFor(Live) : IssuedFor(Live)[n] = Ticked.token =>
            n \in DOMAIN issued' /\ issued'[n] = Ticked.token
    BY <1>5 DEF Revoke, IssuedFor
  <2>4. Ticked.focus \in Popups => popup'[Ticked.focus] # None
    BY <1>1 DEF Fits, InFocus, Revoke, worldVars
  <2>5. Fits(Ticked, leases', popup', issued')
    BY <1>1, <2>2, <2>3, <2>4, FitsAlso
  <2> QED BY <1>3, <2>1, <2>5 DEF SeatInv
<1> QED BY <1>4, <1>5

LEMMA BeginRefusedKeeps ==
    ASSUME SeatInv, NEW t \in Tokens, NEW x \in Surfaces, BeginRefused(t, x)
    PROVE  SeatInv'
<1>1. Live \in SUBSET DOMAIN leases
  BY DEF Live
<1>2. WorldOK'
  BY <1>1, LeasesKeepShape DEF BeginRefused, LiveLeases, SeatInv, WorldOK, worldVars
<1> QED BY <1>2, BegunFits DEF BeginRefused, SeatInv, worldVars

LEMMA DeliverKeeps ==
    ASSUME SeatInv, NEW t \in Tokens, NEW x \in Surfaces, NEW keys \in BOOLEAN,
           NEW chosen \in BOOLEAN, NEW presses \in BOOLEAN,
           Deliver(t, x, keys, chosen, presses)
    PROVE  SeatInv'
<1> DEFINE w == leases[t].window
           s == Begun(t, w)
           y == Target(s, x, keys, chosen)
           is == IssuedFor(Live)
<1>1. /\ w \in Windows /\ t \in Live
      /\ Fits(s, LiveLeases, popup, is)
      /\ s.token = t /\ s.root = w
  BY BegunFits DEF Deliver
<1>2. Live \in SUBSET DOMAIN leases
  BY DEF Live
<1>3. WorldOK' /\ leases' = LiveLeases /\ popup' = popup
  BY <1>2, LeasesKeepShape DEF Deliver, LiveLeases, SeatInv, WorldOK, worldVars
<1>4. y = w \/ (y \in Popups /\ popup[y] # None)
  BY DEF Deliver, InTree
<1>5. t # None /\ w # None /\ y \in Surfaces
  BY <1>1, <1>4, SeatAssumption DEF Surfaces
<1>6. \/ seat' = [s EXCEPT !.focus = y] /\ issued' = is
      \/ \E n \in Serials \ {s.serials[i].serial : i \in DOMAIN s.serials} :
            /\ seat' = [s EXCEPT !.focus = y,
                          !.serials = Issue(@, [serial |-> n, token |-> t, root |-> w])]
            /\ issued' = [m \in DOMAIN is \cup {n} |-> IF m = n THEN t ELSE issued[m]]
  BY DEF Deliver
<1> HIDE DEF s, y, is, w
<1>7. Shaped(s) /\ Distinct(s.serials) /\ Current(s.serials, t, w, is)
  BY <1>1 DEF Fits
<1>8. s.serials \in Seq(SerialRecords)
  BY <1>7 DEF Shaped
<1>9. t \in DOMAIN LiveLeases /\ LiveLeases[t].window = w
  BY <1>1, <1>5 DEF Fits, OfLease
<1>10. CASE seat' = [s EXCEPT !.focus = y] /\ issued' = is
  <2>1. /\ Shaped(seat') /\ seat'.token = t /\ seat'.root = w
        /\ seat'.focus = y /\ seat'.serials = s.serials
    BY <1>1, <1>5, <1>7, <1>10 DEF Shaped
  <2>2. OfLease(seat', leases') /\ InFocus(seat', popup')
    BY <1>1, <1>3, <1>4, <1>5, <1>9, <2>1, SeatAssumption DEF OfLease, InFocus
  <2> QED BY <1>3, <1>7, <1>10, <2>1, <2>2 DEF SeatInv, Fits
<1>11. ASSUME NEW n \in Serials \ {s.serials[i].serial : i \in DOMAIN s.serials},
              seat' = [s EXCEPT !.focus = y,
                         !.serials = Issue(@, [serial |-> n, token |-> t, root |-> w])],
              issued' = [m \in DOMAIN is \cup {n} |-> IF m = n THEN t ELSE issued[m]]
       PROVE  SeatInv'
  <2> DEFINE r == [serial |-> n, token |-> t, root |-> w]
             log == Issue(s.serials, r)
  <2>1. r \in SerialRecords /\ \A i \in DOMAIN s.serials : s.serials[i].serial # r.serial
    BY <1>1, <1>11 DEF SerialRecords
  <2>2. /\ log \in Seq(SerialRecords) /\ Distinct(log)
        /\ \A i \in DOMAIN log : log[i] = r \/ \E j \in DOMAIN s.serials : log[i] = s.serials[j]
    BY <1>7, <1>8, <2>1, IssueKeeps
  <2>3. \A m \in DOMAIN is : is[m] = issued[m]
    BY DEF is, IssuedFor
  <2>4. ASSUME NEW i \in DOMAIN log
        PROVE  /\ log[i].token = t /\ log[i].root = w
               /\ log[i].serial \in DOMAIN issued' /\ issued'[log[i].serial] = t
    <3>1. CASE log[i] = r
      <4>1. log[i].token = t /\ log[i].root = w /\ log[i].serial = n
        BY <3>1
      <4> QED BY <1>11, <4>1
    <3>2. ASSUME NEW j \in DOMAIN s.serials, log[i] = s.serials[j]
          PROVE  /\ log[i].token = t /\ log[i].root = w
                 /\ log[i].serial \in DOMAIN issued' /\ issued'[log[i].serial] = t
      <4>1. /\ log[i].token = t /\ log[i].root = w
            /\ log[i].serial \in DOMAIN is /\ is[log[i].serial] = t
        BY <1>7, <3>2 DEF Current
      <4>2. log[i].serial # n
        BY <2>1, <3>2
      <4> QED BY <1>11, <2>3, <4>1, <4>2
    <3> QED BY <2>2, <3>1, <3>2
  <2>5. Current(log, t, w, issued')
    BY <2>4 DEF Current
  <2>6. seat' = [s EXCEPT !.focus = y, !.serials = log]
    BY <1>11
  <2> HIDE DEF log, r
  <2>7. /\ Shaped(seat') /\ seat'.token = t /\ seat'.root = w
        /\ seat'.focus = y /\ seat'.serials = log
    BY <1>1, <1>5, <1>7, <2>2, <2>6 DEF Shaped
  <2>8. OfLease(seat', leases') /\ InFocus(seat', popup')
    BY <1>1, <1>3, <1>4, <1>5, <1>9, <2>7, SeatAssumption DEF OfLease, InFocus
  <2> QED BY <1>3, <2>2, <2>5, <2>7, <2>8 DEF SeatInv, Fits
<1> QED BY <1>6, <1>10, <1>11

(* Requests of the clients. *)
LEMMA ForgetKeeps == ASSUME SeatInv, NEW p \in Popups, DestroyPopup(p) PROVE SeatInv'
<1>1. popup' \in [Popups -> {None} \cup PopupStates]
      /\ \A q \in Popups \ {p} : popup[q] # None => popup'[q] # None
  BY NoneAssumption DEF DestroyPopup, PopupStates, SeatInv, WorldOK
<1>2. WorldOK'
  BY <1>1 DEF DestroyPopup, SeatInv, WorldOK
<1>3. PICK pps : seat' = [seat EXCEPT !.focus = IF @ \in {p} THEN None ELSE @, !.popups = pps]
  BY DEF DestroyPopup, Forget
<1>4. Fits(seat, leases, popup, issued)
  BY DEF SeatInv
<1>5. /\ Shaped(seat')
      /\ seat'.token = seat.token /\ seat'.root = seat.root /\ seat'.serials = seat.serials
      /\ seat'.focus = IF seat.focus = p THEN None ELSE seat.focus
  BY <1>3, <1>4 DEF Fits, Shaped
<1>6. seat.token = None => seat' = NoSeat
  <2>1. SUFFICES ASSUME seat = NoSeat PROVE seat' = NoSeat
    BY <1>4 DEF Fits, OfLease
  <2>2. seat' = Forget({p})
    BY DEF DestroyPopup
  <2>3. seat.popups = <<>> /\ seat.focus = None
    BY <2>1 DEF NoSeat
  <2>4. [i \in DOMAIN seat.popups |->
            IF seat.popups[i].popup \in {p} THEN [seat.popups[i] EXCEPT !.popup = None]
            ELSE seat.popups[i]] = <<>>
    BY <2>3
  <2> QED BY <2>1, <2>2, <2>3, <2>4 DEF Forget, NoSeat
<1>7. OfLease(seat', leases')
  BY <1>4, <1>5, <1>6 DEF DestroyPopup, Fits, OfLease
<1>8. InFocus(seat', popup')
  BY <1>1, <1>4, <1>5, SeatAssumption DEF Fits, InFocus
<1>9. issued' = issued
  BY DEF DestroyPopup
<1> QED BY <1>2, <1>4, <1>5, <1>7, <1>8, <1>9 DEF SeatInv, Fits

LEMMA GrabKeeps == ASSUME SeatInv, NEW p \in Popups, NEW n \in Serials, Grab(p, n) PROVE SeatInv'
<1>0. PICK i \in DOMAIN seat.serials :
          \E pps : seat' = [seat EXCEPT !.serials = RemoveAt(seat.serials, i), !.popups = pps]
  BY DEF Grab, Spent
<1>1. PICK pps :
          seat' = [seat EXCEPT !.serials = RemoveAt(seat.serials, i), !.popups = pps]
  BY <1>0
<1>2. Fits(seat, leases, popup, issued)
  BY DEF SeatInv
<1> DEFINE log == RemoveAt(seat.serials, i)
<1>3. /\ log \in Seq(SerialRecords) /\ Distinct(log)
      /\ \A k \in DOMAIN log : \E j \in DOMAIN seat.serials : log[k] = seat.serials[j]
  BY <1>1, <1>2, RemoveKeeps DEF Fits, Shaped
<1>4. seat' = [seat EXCEPT !.serials = log, !.popups = pps]
  BY <1>1
<1> HIDE DEF log
<1>5. /\ Shaped(seat')
      /\ seat'.token = seat.token /\ seat'.root = seat.root
      /\ seat'.focus = seat.focus /\ seat'.serials = log
  BY <1>2, <1>3, <1>4 DEF Fits, Shaped
<1>6. UNCHANGED <<leases, worldVars, issued>>
  BY DEF Grab
<1>7. seat.token # None
  BY SeatAssumption DEF Grab, Authorized, Live, SeatInv, WorldOK
<1>8. OfLease(seat', leases') /\ InFocus(seat', popup')
  BY <1>2, <1>5, <1>6, <1>7 DEF Fits, OfLease, InFocus, worldVars
<1>9. Current(log, seat.token, seat.root, issued)
  BY <1>2, <1>3 DEF Fits, Current
<1>10. WorldOK'
  BY <1>6 DEF SeatInv, WorldOK, worldVars
<1> QED BY <1>3, <1>5, <1>6, <1>8, <1>9, <1>10 DEF SeatInv, Fits

(* Events of the compositor. *)
LEMMA DestroyKeeps == ASSUME SeatInv, NEW w \in Windows, Destroy(w) PROVE SeatInv'
<1>1. leases' \in [DOMAIN leases -> Leases]
  BY DEF Destroy, Leases, SeatInv, WorldOK
<1>2. /\ popup' \in [Popups -> {None} \cup PopupStates]
      /\ \A q \in Popups : popup[q] # None => popup'[q] # None
  BY NoneAssumption DEF Destroy, PopupStates, SeatInv, WorldOK
<1>3. WorldOK'
  BY <1>1, <1>2 DEF Destroy, SeatInv, WorldOK
<1>4. CASE seat.root = w
  BY <1>3, <1>4, NoSeatFits DEF Destroy, RootGone, SeatInv
<1>5. CASE seat.root # w
  <2>1. seat' = seat /\ issued' = issued /\ Fits(seat, leases, popup, issued)
    BY <1>5 DEF Destroy, RootGone, SeatInv
  <2>2. seat.token # None => /\ seat.token \in DOMAIN leases'
                             /\ leases'[seat.token].window = leases[seat.token].window
    BY <1>5, <2>1 DEF Destroy, Fits, OfLease
  <2>3. seat.focus \in Popups => popup'[seat.focus] # None
    BY <1>2, <2>1 DEF Fits, InFocus
  <2>4. Fits(seat, leases', popup', issued)
    BY <2>1, <2>2, <2>3, FitsAlso
  <2> QED BY <1>3, <2>1, <2>4 DEF SeatInv
<1> QED BY <1>4, <1>5

LEMMA DeadlineKeeps == ASSUME SeatInv, NEW t \in Tokens, DeadlinePasses(t) PROVE SeatInv'
<1>1. leases' \in [DOMAIN leases -> Leases] /\ DOMAIN leases' = DOMAIN leases
      /\ \A x \in DOMAIN leases : leases'[x].window = leases[x].window
  BY DEF DeadlinePasses, Leases, SeatInv, WorldOK
<1>2. WorldOK' /\ UNCHANGED <<seat, popup, issued>>
  BY <1>1 DEF DeadlinePasses, SeatInv, WorldOK, worldVars
<1>3. Fits(seat, leases, popup, issued)
  BY DEF SeatInv
<1>4. Fits(seat, leases', popup, issued)
  BY <1>1, <1>3 DEF Fits, OfLease
<1> QED BY <1>2, <1>4 DEF SeatInv

LEMMA WindowsKeepSeat ==
    ASSUME SeatInv, UNCHANGED <<leases, seat, popup, issued>>,
           mapped' \subseteq Windows, visible' \subseteq mapped'
    PROVE  SeatInv'
BY DEF SeatInv, WorldOK
-----------------------------------------------------------------------------
LEMMA SeatInvariant == Spec => []SeatInv
<1>1. Init => SeatInv
  <2>1. Init => WorldOK
    BY DEF Init, WorldOK
  <2> QED BY <2>1, NoSeatFits DEF Init, SeatInv
<1>2. ASSUME SeatInv, [Next]_vars PROVE SeatInv'
  <2>1. CASE BrokerStep
    BY <1>2, <2>1, TickKeeps, ClearKeeps, AuthorizeKeeps, RevokeKeeps, BeginRefusedKeeps,
       DeliverKeeps DEF BrokerStep
  <2>2. CASE ClientStep
    <3>1. ASSUME NEW w \in Windows, Bind(w) \/ Unbind(w) PROVE SeatInv'
      BY <1>2, <3>1 DEF Bind, Unbind, SeatInv, WorldOK
    <3>2. ASSUME NEW p \in Popups, NEW x \in Surfaces, CreatePopup(p, x) PROVE SeatInv'
      <4>1. popup' \in [Popups -> {None} \cup PopupStates]
            /\ \A q \in Popups : popup[q] # None => popup'[q] # None
        BY <1>2, <3>2, NoneAssumption DEF CreatePopup, PopupStates, Surfaces, SeatInv, WorldOK
      <4> QED BY <1>2, <3>2, <4>1, PopupsKeepSeat DEF CreatePopup
    <3>3. ASSUME NEW p \in Popups, MapPopup(p) PROVE SeatInv'
      <4>1. popup' \in [Popups -> {None} \cup PopupStates]
            /\ \A q \in Popups : popup[q] # None => popup'[q] # None
        BY <1>2, <3>3, NoneAssumption DEF MapPopup, PopupStates, SeatInv, WorldOK
      <4> QED BY <1>2, <3>3, <4>1, PopupsKeepSeat DEF MapPopup
    <3>4. ASSUME NEW p \in Popups, UnmapPopup(p) PROVE SeatInv'
      <4>1. popup' \in [Popups -> {None} \cup PopupStates]
            /\ \A q \in Popups : popup[q] # None => popup'[q] # None
        BY <1>2, <3>4, NoneAssumption DEF UnmapPopup, PopupStates, SeatInv, WorldOK
      <4> QED BY <1>2, <3>4, <4>1, PopupsKeepSeat DEF UnmapPopup
    <3> QED BY <1>2, <2>2, <3>1, <3>2, <3>3, <3>4, ForgetKeeps, GrabKeeps DEF ClientStep
  <2>3. CASE CompositorStep
    <3>1. ASSUME NEW w \in Windows, Map(w) \/ Unmap(w) \/ ShowOrHide(w) PROVE SeatInv'
      <4>1. mapped' \subseteq Windows /\ visible' \subseteq mapped'
        BY <1>2, <3>1 DEF Map, Unmap, ShowOrHide, SeatInv, WorldOK
      <4> QED BY <1>2, <3>1, <4>1, WindowsKeepSeat DEF Map, Unmap, ShowOrHide
    <3>2. CASE LockOrUnlock
      BY <1>2, <3>2 DEF LockOrUnlock, SeatInv, WorldOK
    <3> QED BY <1>2, <2>3, <3>1, <3>2, DestroyKeeps, DeadlineKeeps DEF CompositorStep
  <2>4. CASE UNCHANGED vars
    BY <1>2, <2>4 DEF vars, worldVars, SeatInv, WorldOK
  <2> QED BY <1>2, <2>1, <2>2, <2>3, <2>4 DEF Next
<1> QED BY <1>1, <1>2, PTL DEF Spec

-----------------------------------------------------------------------------
(* A set of naturals that is not empty has a least member; hence a set that *)
(* holds 0, and with every number the next, holds every number.             *)
LEMMA LeastOf ==
    ASSUME NEW T \in SUBSET Nat, T # {}
    PROVE  \E m \in T : \A k \in T : m <= k
<1> DEFINE Up == {1..n : n \in T}
<1>1. IsWellFoundedOn(StrictSubsetOrdering(Nat), FiniteSubsetsOf(Nat))
  BY FS_StrictSubsetOrderingWellFounded
<1>2. Up \subseteq FiniteSubsetsOf(Nat)
  <2> SUFFICES ASSUME NEW n \in T PROVE 1..n \in FiniteSubsetsOf(Nat)
    OBVIOUS
  <2>1. n \in Nat /\ 1 \in Int /\ n \in Int
    OBVIOUS
  <2>2. IsFiniteSet(1..n)
    BY <2>1, FS_Interval
  <2> QED BY <2>1, <2>2 DEF FiniteSubsetsOf
<1>3. Up # {}
  OBVIOUS
<1>4. PICK U \in Up : \A V \in Up : ~(<<V, U>> \in StrictSubsetOrdering(Nat))
  BY <1>1, <1>2, <1>3, WFMin
<1>5. PICK m \in T : U = 1..m
  OBVIOUS
<1>6. ASSUME NEW k \in T, k < m PROVE FALSE
  <2>1. 1..k \in Up /\ 1..k \subseteq Nat /\ 1..m \subseteq Nat
    OBVIOUS
  <2>2. m \in 1..m /\ m \notin 1..k /\ 1..k \subseteq 1..m
    BY <1>6
  <2>3. <<1..k, 1..m>> \in StrictSubsetOrdering(Nat)
    BY <2>1, <2>2 DEF StrictSubsetOrdering
  <2> QED BY <1>4, <1>5, <2>1, <2>3
<1> QED BY <1>6

LEMMA Inductive ==
    ASSUME NEW S, 0 \in S, \A n \in Nat : n \in S => n + 1 \in S
    PROVE  Nat \subseteq S
<1> SUFFICES ASSUME Nat \ S # {} PROVE FALSE
  OBVIOUS
<1>1. PICK m \in Nat \ S : \A k \in Nat \ S : m <= k
  BY LeastOf
<1>2. m # 0 /\ m - 1 \in Nat
  BY <1>1
<1>3. m - 1 \in S
  BY <1>1, <1>2
<1> QED BY <1>2, <1>3

Increasing(f) == \A a, b \in DOMAIN f : a < b => f[a] < f[b]

(* Some positions of a sequence can be listed in their order. *)
LEMMA OrderExists ==
    ASSUME NEW M \in Nat, NEW Chosen \in SUBSET (1..M)
    PROVE  /\ IsFiniteSet(Chosen)
           /\ \E f \in [1..Cardinality(Chosen) -> Chosen] : Increasing(f)
<1> DEFINE Listed(S) ==
             IsFiniteSet(S) /\ \E f \in [1..Cardinality(S) -> S] : Increasing(f)
           Good == {m \in Nat : \A S \in SUBSET (1..m) : Listed(S)}
<1>1. 0 \in Good
  <2>0. SUBSET (1..0) = {{}}
    <3>1. 1..0 = {}
      OBVIOUS
    <3> QED BY <3>1
  <2>1. IsFiniteSet({}) /\ Cardinality({}) = 0
    BY FS_EmptySet
  <2>2. <<>> \in [1..0 -> {}] /\ Increasing(<<>>)
    BY DEF Increasing
  <2>3. Listed({})
    BY <2>1, <2>2
  <2> HIDE DEF Listed
  <2> QED BY <2>0, <2>3
<1>2. ASSUME NEW m \in Nat, m \in Good PROVE m + 1 \in Good
  <2> SUFFICES ASSUME NEW S \in SUBSET (1..(m + 1)) PROVE Listed(S)
    OBVIOUS
  <2>1. CASE m + 1 \notin S
    <3>1. S \in SUBSET (1..m)
      BY <2>1
    <3> QED BY <1>2, <3>1
  <2>2. CASE m + 1 \in S
    <3> DEFINE R == S \ {m + 1}
    <3>1. R \in SUBSET (1..m) /\ m + 1 \notin R
      OBVIOUS
    <3>2. Listed(R)
      BY <1>2, <3>1
    <3>3. S = R \cup {m + 1}
      BY <2>2
    <3> HIDE DEF R
    <3>4. IsFiniteSet(S) /\ Cardinality(S) = Cardinality(R) + 1
      BY <3>1, <3>2, <3>3, FS_AddElement
    <3>5. PICK g \in [1..Cardinality(R) -> R] : Increasing(g)
      BY <3>2
    <3>6. Cardinality(R) \in Nat
      BY <3>2, FS_CardinalityType
    <3> DEFINE c == Cardinality(R)
               f == [k \in 1..(c + 1) |-> IF k <= c THEN g[k] ELSE m + 1]
    <3> HIDE DEF c
    <3>7. c \in Nat /\ g \in [1..c -> R] /\ c = Cardinality(R)
      BY <3>5, <3>6 DEF c
    <3>8. f \in [1..(c + 1) -> S]
      BY <3>3, <3>7
    <3>9. Increasing(f)
      <4> SUFFICES ASSUME NEW a \in 1..(c + 1), NEW b \in 1..(c + 1), a < b
                   PROVE  f[a] < f[b]
        BY DEF Increasing
      <4>1. a \in 1..c /\ f[a] = g[a] /\ g[a] \in R
        BY <3>7
      <4>2. g[a] \in 1..m
        BY <3>1, <4>1
      <4>3. CASE b <= c
        <5>1. b \in 1..c /\ f[b] = g[b]
          BY <3>7, <4>3
        <5> QED BY <3>5, <3>7, <4>1, <5>1 DEF Increasing
      <4>4. CASE ~(b <= c)
        BY <4>1, <4>2, <4>4
      <4> QED BY <4>3, <4>4
    <3> QED BY <3>4, <3>7, <3>8, <3>9
  <2> QED BY <2>1, <2>2
<1> HIDE DEF Good
<1>3. Nat \subseteq Good
  BY <1>1, <1>2, Inductive
<1>4. M \in Good
  BY <1>3
<1> QED BY <1>4 DEF Good

(* InOrder lists its set, and ends with the greatest member. *)
LEMMA OrderLists ==
    ASSUME NEW M \in Nat, NEW Chosen \in SUBSET (1..M)
    PROVE  /\ Cardinality(Chosen) \in Nat /\ Cardinality(Chosen) <= M
           /\ InOrder(Chosen) \in [1..Cardinality(Chosen) -> Chosen]
           /\ \A x \in Chosen : /\ Cardinality(Chosen) >= 1
                                /\ x <= InOrder(Chosen)[Cardinality(Chosen)]
<1> DEFINE c == Cardinality(Chosen)
           f == InOrder(Chosen)
<1>0. \A x \in Chosen : x \in Nat
  OBVIOUS
<1>1. IsFiniteSet(Chosen) /\ c \in Nat
  BY OrderExists, FS_CardinalityType
<1>2. f \in [1..c -> Chosen] /\ \A a, b \in 1..c : a < b => f[a] < f[b]
  <2>1. f \in [1..c -> Chosen] /\ Increasing(f)
    BY OrderExists DEF InOrder, Increasing
  <2> HIDE DEF f, c
  <2> QED BY <2>1 DEF Increasing
<1>3. IsFiniteSet(1..M) /\ Cardinality(1..M) = M
  <2>1. 1 \in Int /\ M \in Int /\ (1 > M => M = 0)
    OBVIOUS
  <2> QED BY <2>1, FS_Interval
<1>4. c <= M
  BY <1>3, FS_Subset
<1> HIDE DEF f, c
<1>5. IsFiniteSet(1..c) /\ Cardinality(1..c) = c
  <2>1. 1 \in Int /\ c \in Int /\ (1 > c => c = 0)
    BY <1>1
  <2> QED BY <1>1, <2>1, FS_Interval
<1>6. f \in Injection(1..c, Chosen)
  <2> SUFFICES ASSUME NEW a \in 1..c, NEW b \in 1..c, a # b PROVE f[a] # f[b]
    BY <1>2 DEF Injection, IsInjective
  <2>1. f[a] \in Nat /\ f[b] \in Nat
    BY <1>0, <1>2
  <2>2. a < b \/ b < a
    BY <1>1
  <2> QED BY <1>2, <2>1, <2>2
<1>7. f \in Surjection(1..c, Chosen)
  BY <1>1, <1>5, <1>6, FS_Injection DEF c
<1>8. ASSUME NEW x \in Chosen PROVE c >= 1 /\ x <= f[c]
  <2>1. PICK a \in 1..c : f[a] = x
    BY <1>7 DEF Surjection
  <2>2. c \in 1..c /\ (a < c \/ a = c)
    BY <1>1
  <2>3. f[c] \in Nat /\ x \in Nat
    BY <1>0, <1>2, <2>2
  <2> QED BY <1>2, <2>1, <2>2, <2>3
<1> QED BY <1>1, <1>2, <1>4, <1>8 DEF c, f
-----------------------------------------------------------------------------
(* The grabs: what the seat remembers of a popup is true of it still, and   *)
(* a popup that is mapped has been seen mapped.                             *)
Remembered(grabs, pu) ==
    /\ grabs \in Seq(Grabs) /\ Len(grabs) <= MaxPopups
    /\ \A i \in DOMAIN grabs : grabs[i].popup # None =>
          pu[grabs[i].popup] # None /\ (grabs[i].mapped => pu[grabs[i].popup].seen)

MappedSeen(pu) == \A p \in Popups : pu[p] # None /\ pu[p].mapped => pu[p].seen

GivenOut(is) == DOMAIN is \subseteq Serials /\ is \in [DOMAIN is -> Tokens]

RestOK ==
    /\ Len(seat.serials) <= MaxSerials
    /\ bound \subseteq Windows /\ locked \in BOOLEAN
    /\ GivenOut(issued)
    /\ sent \in [surface : Surfaces \cup {None}, chosen : BOOLEAN]

GrabsInv == Remembered(seat.popups, popup) /\ MappedSeen(popup) /\ RestOK

LEMMA SeenGrab ==
    ASSUME SeatInv, NEW g \in Grabs, OpenGrab(g)
    PROVE  /\ Seen(g) \in Grabs /\ Seen(g).popup = g.popup /\ g.popup \in Popups
           /\ Seen(g).mapped <=> (g.mapped \/ popup[g.popup].mapped)
BY DEF Seen, Grabs, OpenGrab

(* What begin() leaves are open grabs, and the newest of them last. *)
LEMMA KeptLists ==
    ASSUME SeatInv, NEW grabs \in Seq(Grabs)
    PROVE  LET kept == Kept(grabs) IN
           /\ kept \in Seq(Grabs) /\ Len(kept) <= Len(grabs)
           /\ \A k \in DOMAIN kept :
                 \E i \in DOMAIN grabs : OpenGrab(grabs[i]) /\ kept[k] = Seen(grabs[i])
           /\ \A i \in DOMAIN grabs : OpenGrab(grabs[i]) =>
                 /\ kept # <<>>
                 /\ \E m \in DOMAIN grabs :
                       i <= m /\ OpenGrab(grabs[m]) /\ kept[Len(kept)] = Seen(grabs[m])
<1> DEFINE Open == {i \in DOMAIN grabs : OpenGrab(grabs[i])}
           c == Cardinality(Open)
           order == InOrder(Open)
           kept == [k \in 1..c |-> Seen(grabs[order[k]])]
<1>1. Len(grabs) \in Nat /\ DOMAIN grabs = 1..Len(grabs) /\ Open \in SUBSET (1..Len(grabs))
  OBVIOUS
<1>2. /\ c \in Nat /\ c <= Len(grabs) /\ order \in [1..c -> Open]
      /\ \A x \in Open : c >= 1 /\ x <= order[c]
  BY <1>1, OrderLists
<1>3. Kept(grabs) = kept
  BY <1>2 DEF Kept
<1> HIDE DEF order, c
<1>4. ASSUME NEW k \in 1..c
      PROVE  /\ order[k] \in DOMAIN grabs /\ OpenGrab(grabs[order[k]])
             /\ Seen(grabs[order[k]]) \in Grabs
  <2>1. order[k] \in DOMAIN grabs /\ OpenGrab(grabs[order[k]])
    BY <1>2
  <2>2. grabs[order[k]] \in Grabs
    BY <2>1
  <2> QED BY <2>1, <2>2, SeenGrab
<1>5. /\ kept \in Seq(Grabs) /\ Len(kept) = c /\ DOMAIN kept = 1..c
      /\ \A k \in 1..c : kept[k] = Seen(grabs[order[k]])
  BY <1>2, <1>4
<1> HIDE DEF kept
<1>6. ASSUME NEW i \in DOMAIN grabs, OpenGrab(grabs[i])
      PROVE  /\ kept # <<>>
             /\ \E m \in DOMAIN grabs :
                   i <= m /\ OpenGrab(grabs[m]) /\ kept[Len(kept)] = Seen(grabs[m])
  <2>1. i \in Open
    BY <1>6
  <2>2. c \in 1..c /\ i <= order[c]
    BY <1>2, <2>1
  <2> QED BY <1>4, <1>5, <2>2
<1> QED BY <1>2, <1>3, <1>4, <1>5, <1>6

LEMMA KeptRemembers ==
    ASSUME SeatInv, MappedSeen(popup), NEW grabs, Remembered(grabs, popup)
    PROVE  Remembered(Kept(grabs), popup)
<1> DEFINE kept == Kept(grabs)
<1>1. grabs \in Seq(Grabs) /\ Len(grabs) <= MaxPopups /\ Len(grabs) \in Nat
  BY DEF Remembered
<1>2. /\ kept \in Seq(Grabs) /\ Len(kept) <= Len(grabs)
      /\ \A k \in DOMAIN kept :
            \E i \in DOMAIN grabs : OpenGrab(grabs[i]) /\ kept[k] = Seen(grabs[i])
  BY <1>1, KeptLists
<1> HIDE DEF kept
<1>3. Len(kept) <= MaxPopups
  BY <1>1, <1>2, SeatAssumption
<1>4. ASSUME NEW k \in DOMAIN kept
      PROVE  kept[k].popup # None =>
                popup[kept[k].popup] # None /\ (kept[k].mapped => popup[kept[k].popup].seen)
  <2>1. PICK i \in DOMAIN grabs : OpenGrab(grabs[i]) /\ kept[k] = Seen(grabs[i])
    BY <1>2
  <2>2. grabs[i] \in Grabs
    BY <1>1
  <2>3. /\ kept[k].popup = grabs[i].popup /\ grabs[i].popup \in Popups
        /\ kept[k].mapped <=> (grabs[i].mapped \/ popup[grabs[i].popup].mapped)
    BY <2>1, <2>2, SeenGrab
  <2>4. /\ popup[grabs[i].popup] # None
        /\ grabs[i].mapped => popup[grabs[i].popup].seen
    BY <2>1 DEF Remembered, OpenGrab
  <2> QED BY <2>3, <2>4 DEF MappedSeen
<1> QED BY <1>2, <1>3, <1>4 DEF Remembered, kept

(* The seat that begin() turns to remembers no more than it did. *)
LEMMA BegunRemembers ==
    ASSUME SeatInv, GrabsInv, NEW t \in Tokens, NEW w \in Windows
    PROVE  LET s == Begun(t, w)
               b == IF Ticked.token = t /\ Ticked.root = w THEN Ticked
                    ELSE [NoSeat EXCEPT !.token = t, !.root = w]
           IN  /\ s.popups = Kept(b.popups) /\ b.popups \in Seq(Grabs)
               /\ Remembered(s.popups, popup)
               /\ s.serials \in Seq(SerialRecords) /\ Len(s.serials) <= MaxSerials
<1> DEFINE b == IF Ticked.token = t /\ Ticked.root = w THEN Ticked
                ELSE [NoSeat EXCEPT !.token = t, !.root = w]
<1>1. Remembered(<<>>, popup) /\ <<>> \in Seq(SerialRecords) /\ Len(<<>>) <= MaxSerials
  BY SeatAssumption DEF Remembered
<1>2. seat \in [token : Tokens \cup {None}, root : Windows \cup {None},
           focus : Surfaces \cup {None}, serials : Seq(SerialRecords), popups : {seat.popups}]
  BY DEF SeatInv, Fits, Shaped
<1>3. b = seat \/ (b.popups = <<>> /\ b.serials = <<>> /\ "popups" \in DOMAIN b
                     /\ \A v : [b EXCEPT !.popups = v].popups = v
                               /\ [b EXCEPT !.popups = v].serials = <<>>)
  BY DEF Ticked, NoSeat
<1>4. /\ Remembered(b.popups, popup)
      /\ b.serials \in Seq(SerialRecords) /\ Len(b.serials) <= MaxSerials
      /\ [b EXCEPT !.popups = Kept(@)].popups = Kept(b.popups)
      /\ [b EXCEPT !.popups = Kept(@)].serials = b.serials
  BY <1>1, <1>2, <1>3 DEF GrabsInv, RestOK
<1>5. Begun(t, w) = [b EXCEPT !.popups = Kept(@)]
  BY DEF Begun
<1>6. Remembered(Kept(b.popups), popup) /\ b.popups \in Seq(Grabs)
  BY <1>4, KeptRemembers DEF GrabsInv, Remembered
<1> HIDE DEF b
<1>7. /\ Begun(t, w).popups = Kept(b.popups)
      /\ Begun(t, w).serials = b.serials
  BY <1>4, <1>5
<1> QED BY <1>4, <1>6, <1>7 DEF b

LEMMA IssuedGivenOut ==
    ASSUME GivenOut(issued), NEW T PROVE GivenOut(IssuedFor(T))
BY DEF GivenOut, IssuedFor

LEMMA NoInputOK == NoInput \in [surface : Surfaces \cup {None}, chosen : BOOLEAN]
BY DEF NoInput

(* A step that leaves the seat's grabs alone, or takes all of them, and     *)
(* makes no popup unseen.                                                   *)
LEMMA GrabsStay ==
    ASSUME SeatInv, GrabsInv, seat' = seat \/ seat' = NoSeat,
           MappedSeen(popup'),
           \A p \in Popups : popup[p] # None =>
               popup'[p] # None /\ (popup[p].seen => popup'[p].seen)
    PROVE  Remembered(seat'.popups, popup') /\ Len(seat'.serials) <= MaxSerials
<1>1. CASE seat' = seat
  <2> DEFINE grabs == seat.popups
  <2>1. Remembered(grabs, popup)
    BY DEF GrabsInv
  <2> HIDE DEF grabs
  <2>2. ASSUME NEW i \in DOMAIN grabs, grabs[i].popup # None
        PROVE  popup'[grabs[i].popup] # None
               /\ (grabs[i].mapped => popup'[grabs[i].popup].seen)
    <3>1. grabs[i] \in Grabs
      BY <2>1 DEF Remembered
    <3>2. grabs[i].popup \in Popups
      BY <2>2, <3>1 DEF Grabs
    <3> QED BY <2>1, <2>2, <3>2 DEF Remembered
  <2>3. Remembered(grabs, popup')
    BY <2>1, <2>2 DEF Remembered
  <2> QED BY <1>1, <2>3 DEF GrabsInv, RestOK, grabs
<1>2. CASE seat' = NoSeat
  BY <1>2, SeatAssumption DEF NoSeat, Remembered
<1> QED BY <1>1, <1>2

(* Requests of the broker. *)
LEMMA RefusalsKeepGrabs ==
    ASSUME SeatInv, GrabsInv,
           \/ Tick \/ Clear
           \/ \E t \in Tokens, w \in Windows : Authorize(t, w)
           \/ \E t \in Tokens : Revoke(t)
    PROVE  GrabsInv'
<1>1. UNCHANGED worldVars /\ sent' = NoInput /\ \E T : issued' = IssuedFor(T)
  BY DEF Tick, Clear, Authorize, Revoke
<1>2. seat' = seat \/ seat' = NoSeat
  BY DEF Tick, Clear, Authorize, Revoke, Revoked, Ticked
<1>3. Remembered(seat'.popups, popup') /\ Len(seat'.serials) <= MaxSerials
  <2>1. popup' = popup /\ MappedSeen(popup)
    BY <1>1 DEF worldVars, GrabsInv
  <2> QED BY <1>2, <2>1, GrabsStay
<1>4. GivenOut(issued')
  BY <1>1, IssuedGivenOut DEF GrabsInv, RestOK
<1> QED BY <1>1, <1>3, <1>4, NoInputOK DEF GrabsInv, RestOK, worldVars

LEMMA BeginRefusedKeepsGrabs ==
    ASSUME SeatInv, GrabsInv, NEW t \in Tokens, NEW x, BeginRefused(t, x)
    PROVE  GrabsInv'
<1>1. leases[t].window \in Windows
  BY BegunFits DEF BeginRefused
<1>2. /\ Remembered(Begun(t, leases[t].window).popups, popup)
      /\ Len(Begun(t, leases[t].window).serials) <= MaxSerials
  BY <1>1, BegunRemembers
<1> QED BY <1>2, IssuedGivenOut, NoInputOK DEF BeginRefused, GrabsInv, RestOK, worldVars

LEMMA IssueFits ==
    ASSUME NEW log \in Seq(SerialRecords), NEW r \in SerialRecords, Len(log) <= MaxSerials
    PROVE  Len(Issue(log, r)) <= MaxSerials
<1>1. CASE Len(log) = MaxSerials
  <2>1. log # <<>> /\ Tail(log) \in Seq(SerialRecords) /\ Len(Tail(log)) = Len(log) - 1
    BY <1>1, SeatAssumption
  <2> QED BY <1>1, <2>1 DEF Issue
<1>2. CASE Len(log) # MaxSerials
  BY <1>2, SeatAssumption DEF Issue
<1> QED BY <1>1, <1>2

(* What Deliver does to the seat, which goes to begin()'s seat s. *)
LEMMA DeliverKeepsGrabs ==
    ASSUME SeatInv, GrabsInv, NEW t \in Tokens, NEW x, NEW keys \in BOOLEAN,
           NEW chosen \in BOOLEAN, NEW presses, Deliver(t, x, keys, chosen, presses)
    PROVE  GrabsInv'
<1> DEFINE w == leases[t].window
           s == Begun(t, w)
           y == Target(s, x, keys, chosen)
<1>1. w \in Windows /\ Shaped(s)
  BY BegunFits DEF Deliver, Fits
<1>2. /\ Remembered(s.popups, popup)
      /\ s.serials \in Seq(SerialRecords) /\ Len(s.serials) <= MaxSerials
  BY <1>1, BegunRemembers
<1>3. y \in Surfaces
  BY <1>1 DEF Deliver, InTree, Surfaces
<1>4. sent' \in [surface : Surfaces \cup {None}, chosen : BOOLEAN]
  <2>1. sent' = [surface |-> y, chosen |-> chosen \/ ~keys]
    BY DEF Deliver
  <2> HIDE DEF y
  <2>2. (chosen \/ ~keys) \in BOOLEAN
    OBVIOUS
  <2> QED BY <1>3, <2>1, <2>2
<1>5. UNCHANGED worldVars
  BY DEF Deliver
<1>6. \/ seat' = [s EXCEPT !.focus = y] /\ issued' = IssuedFor(Live)
      \/ \E n \in Serials :
            /\ seat' = [s EXCEPT !.focus = y,
                          !.serials = Issue(@, [serial |-> n, token |-> t, root |-> w])]
            /\ issued' = [m \in DOMAIN IssuedFor(Live) \cup {n} |->
                              IF m = n THEN t ELSE issued[m]]
  BY DEF Deliver
<1>7. GivenOut(IssuedFor(Live))
  BY IssuedGivenOut DEF GrabsInv, RestOK
<1> HIDE DEF s, y, w
<1>8. CASE seat' = [s EXCEPT !.focus = y] /\ issued' = IssuedFor(Live)
  <2>1. seat'.popups = s.popups /\ seat'.serials = s.serials
    BY <1>1, <1>8 DEF Shaped
  <2> QED BY <1>2, <1>4, <1>5, <1>7, <1>8, <2>1 DEF GrabsInv, RestOK, worldVars
<1>9. ASSUME NEW n \in Serials,
             seat' = [s EXCEPT !.focus = y,
                        !.serials = Issue(@, [serial |-> n, token |-> t, root |-> w])],
             issued' = [m \in DOMAIN IssuedFor(Live) \cup {n} |->
                           IF m = n THEN t ELSE issued[m]]
      PROVE  GrabsInv'
  <2> DEFINE r == [serial |-> n, token |-> t, root |-> w]
  <2>1. r \in SerialRecords
    BY <1>1 DEF SerialRecords
  <2> HIDE DEF r
  <2>2. seat'.popups = s.popups /\ seat'.serials = Issue(s.serials, r)
    BY <1>1, <1>9 DEF Shaped, r
  <2>3. Len(Issue(s.serials, r)) <= MaxSerials
    BY <1>2, <2>1, IssueFits
  <2>4. \A m \in DOMAIN IssuedFor(Live) : IssuedFor(Live)[m] = issued[m]
    BY DEF IssuedFor
  <2>5. GivenOut(issued')
    BY <1>7, <1>9, <2>4 DEF GivenOut
  <2> QED BY <1>2, <1>4, <1>5, <2>2, <2>3, <2>5 DEF GrabsInv, RestOK, worldVars
<1> QED BY <1>6, <1>8, <1>9

(* Requests of the clients. *)
LEMMA ForgetKeepsGrabs ==
    ASSUME SeatInv, GrabsInv, NEW p \in Popups, DestroyPopup(p)
    PROVE  GrabsInv'
<1> DEFINE old == seat.popups
           new == [i \in DOMAIN old |->
                      IF old[i].popup \in {p} THEN [old[i] EXCEPT !.popup = None] ELSE old[i]]
<1>1. Shaped(seat)
  BY DEF SeatInv, Fits
<1>2. seat'.popups = new /\ seat'.serials = seat.serials
  BY <1>1 DEF DestroyPopup, Forget, Shaped
<1>3. Remembered(old, popup) /\ popup \in [Popups -> {None} \cup PopupStates]
  BY DEF GrabsInv, SeatInv, WorldOK
<1>4. popup' = [q \in Popups |->
                    IF q = p THEN None
                    ELSE IF popup[q] # None /\ popup[q].parent = p
                         THEN [popup[q] EXCEPT !.parent = None] ELSE popup[q]]
  BY DEF DestroyPopup
<1>5. ASSUME NEW q \in Popups, q # p, popup[q] # None
      PROVE  popup'[q] # None /\ popup'[q].seen = popup[q].seen
             /\ popup'[q].mapped = popup[q].mapped
  <2>1. popup[q] \in PopupStates
    BY <1>3, <1>5
  <2>2. [popup[q] EXCEPT !.parent = None] \in PopupStates
    BY <2>1 DEF PopupStates
  <2> QED BY <1>4, <1>5, <2>1, <2>2, NoneAssumption DEF PopupStates
<1>6. MappedSeen(popup')
  BY <1>4, <1>5 DEF MappedSeen, GrabsInv
<1> HIDE DEF old
<1>7. Len(old) \in Nat /\ DOMAIN old = 1..Len(old) /\ \A i \in DOMAIN old : old[i] \in Grabs
  BY <1>3 DEF Remembered
<1>8. ASSUME NEW i \in DOMAIN old
      PROVE  /\ new[i] \in Grabs
             /\ new[i].popup # None =>
                  popup'[new[i].popup] # None /\ (new[i].mapped => popup'[new[i].popup].seen)
  <2>1. old[i] \in Grabs
    BY <1>7
  <2>2. CASE old[i].popup = p
    <3>1. new[i] = [old[i] EXCEPT !.popup = None]
      BY <2>2
    <3> QED BY <2>1, <3>1 DEF Grabs
  <2>3. CASE old[i].popup # p
    <3>1. new[i] = old[i]
      BY <2>3
    <3>2. old[i].popup \in Popups \cup {None}
      BY <2>1 DEF Grabs
    <3>3. old[i].popup # None =>
             popup[old[i].popup] # None /\ (old[i].mapped => popup[old[i].popup].seen)
      BY <1>3 DEF Remembered
    <3> QED BY <1>5, <2>1, <2>3, <3>1, <3>2, <3>3
  <2> QED BY <2>2, <2>3
<1>9. new \in Seq(Grabs) /\ Len(new) = Len(old) /\ DOMAIN new = DOMAIN old
  BY <1>7, <1>8
<1> HIDE DEF new
<1>10. Remembered(new, popup')
  BY <1>3, <1>8, <1>9 DEF Remembered
<1>11. UNCHANGED <<bound, locked, issued>> /\ sent' = NoInput
  BY DEF DestroyPopup
<1> QED BY <1>2, <1>6, <1>10, <1>11, NoInputOK DEF GrabsInv, RestOK

LEMMA RemoveShortens ==
    ASSUME NEW log \in Seq(SerialRecords), NEW k \in DOMAIN log
    PROVE  Len(RemoveAt(log, k)) <= Len(log)
<1> DEFINE a == SubSeq(log, 1, k - 1)
           b == SubSeq(log, k + 1, Len(log))
<1>1. Len(log) \in Nat /\ k \in 1..Len(log)
  OBVIOUS
<1>2. a \in Seq(SerialRecords) /\ Len(a) = k - 1
  BY <1>1
<1>3. b \in Seq(SerialRecords) /\ Len(b) = Len(log) - k
  BY <1>1
<1>4. RemoveAt(log, k) = a \o b
  BY DEF RemoveAt
<1> HIDE DEF a, b
<1>5. Len(a \o b) = Len(a) + Len(b)
  BY <1>2, <1>3, ConcatProperties
<1> QED BY <1>1, <1>2, <1>3, <1>4, <1>5

LEMMA GrabKeepsGrabs ==
    ASSUME SeatInv, GrabsInv, NEW p \in Popups, NEW n \in Serials, Grab(p, n)
    PROVE  GrabsInv'
<1> DEFINE new == Append(seat.popups, [popup |-> p, mapped |-> FALSE])
<1>1. PICK i \in DOMAIN seat.serials, old \in BOOLEAN :
          seat' = [seat EXCEPT !.serials = Spent(i),
                     !.popups = IF Pays(i, old)
                                THEN Append(@, [popup |-> p, mapped |-> FALSE]) ELSE @]
  BY DEF Grab
<1>2. Shaped(seat) /\ seat.serials \in Seq(SerialRecords)
  BY DEF SeatInv, Fits, Shaped
<1>3. seat'.serials = RemoveAt(seat.serials, i)
      /\ (seat'.popups = seat.popups \/ seat'.popups = new)
  BY <1>1, <1>2 DEF Shaped, Spent
<1>4. Len(seat'.serials) <= MaxSerials
  <2>1. Len(RemoveAt(seat.serials, i)) <= Len(seat.serials)
    BY <1>2, RemoveShortens
  <2>2. Len(seat.serials) \in Nat /\ Len(RemoveAt(seat.serials, i)) \in Nat
    BY <1>2, RemoveKeeps DEF SeatInv, Fits
  <2> QED BY <1>3, <2>1, <2>2, SeatAssumption DEF GrabsInv, RestOK
<1>5. Remembered(seat.popups, popup)
  BY DEF GrabsInv
<1>6. Remembered(new, popup)
  <2>1. [popup |-> p, mapped |-> FALSE] \in Grabs
    BY DEF Grabs
  <2>2. /\ seat.popups \in Seq(Grabs) /\ Len(seat.popups) < MaxPopups
        /\ popup[p] # None
    BY <1>5 DEF Grab, Remembered
  <2> DEFINE grabs == seat.popups
  <2> HIDE DEF grabs
  <2>3. /\ new \in Seq(Grabs) /\ Len(new) = Len(grabs) + 1
        /\ \A j \in 1..Len(grabs) : new[j] = grabs[j]
        /\ new[Len(grabs) + 1] = [popup |-> p, mapped |-> FALSE]
        /\ DOMAIN new = 1..(Len(grabs) + 1) /\ Len(grabs) \in Nat
    BY <2>1, <2>2 DEF grabs
  <2> HIDE DEF new
  <2>4. ASSUME NEW j \in DOMAIN new, new[j].popup # None
        PROVE  popup[new[j].popup] # None /\ (new[j].mapped => popup[new[j].popup].seen)
    <3>1. CASE j = Len(grabs) + 1
      BY <2>2, <2>3, <3>1
    <3>2. CASE j # Len(grabs) + 1
      <4>1. j \in 1..Len(grabs) /\ new[j] = grabs[j]
        BY <2>3, <3>2
      <4>2. j \in DOMAIN grabs
        BY <2>2, <4>1 DEF grabs
      <4> QED BY <1>5, <2>4, <4>1, <4>2 DEF Remembered, grabs
    <3> QED BY <3>1, <3>2
  <2>5. Len(new) <= MaxPopups
    BY <2>2, <2>3, SeatAssumption DEF grabs
  <2> QED BY <2>3, <2>4, <2>5 DEF Remembered
<1>7. UNCHANGED <<worldVars, issued>> /\ sent' = NoInput
  BY DEF Grab
<1> HIDE DEF new
<1> QED BY <1>3, <1>4, <1>5, <1>6, <1>7, NoInputOK DEF GrabsInv, RestOK, worldVars

LEMMA MapsSeen ==
    ASSUME NEW st \in PopupStates
    PROVE  LET new == [st EXCEPT !.mapped = TRUE, !.seen = TRUE]
           IN  new \in PopupStates /\ new.seen = TRUE
BY DEF PopupStates

LEMMA ClientsKeepGrabs ==
    ASSUME SeatInv, GrabsInv,
           \/ \E w \in Windows : Bind(w) \/ Unbind(w)
           \/ \E p \in Popups, x \in Surfaces : CreatePopup(p, x)
           \/ \E p \in Popups : MapPopup(p) \/ UnmapPopup(p)
    PROVE  GrabsInv'
<1>1. UNCHANGED <<seat, locked, issued>> /\ sent' = NoInput /\ bound' \subseteq Windows
  BY DEF Bind, Unbind, CreatePopup, MapPopup, UnmapPopup, GrabsInv, RestOK
<1>2. popup \in [Popups -> {None} \cup PopupStates] /\ MappedSeen(popup)
  BY DEF SeatInv, WorldOK, GrabsInv
<1>3. MappedSeen(popup')
      /\ \A p \in Popups : popup[p] # None =>
            popup'[p] # None /\ (popup[p].seen => popup'[p].seen)
  <2>1. CASE popup' = popup
    BY <1>2, <2>1
  <2>2. ASSUME NEW p \in Popups, NEW x \in Surfaces, CreatePopup(p, x) PROVE <1>3
    <3>1. /\ popup[p] = None
          /\ popup' = [popup EXCEPT ![p] = [parent |-> x, mapped |-> FALSE, seen |-> FALSE]]
      BY <2>2 DEF CreatePopup
    <3> QED BY <1>2, <3>1 DEF MappedSeen
  <2>3. ASSUME NEW p \in Popups, MapPopup(p) PROVE <1>3
    <3>1. /\ popup[p] # None /\ popup[p] \in PopupStates
          /\ popup' = [popup EXCEPT ![p] = [popup[p] EXCEPT !.mapped = TRUE, !.seen = TRUE]]
      BY <1>2, <2>3 DEF MapPopup
    <3>2. /\ popup'[p] = [popup[p] EXCEPT !.mapped = TRUE, !.seen = TRUE]
          /\ \A q \in Popups \ {p} : popup'[q] = popup[q]
      BY <1>2, <3>1
    <3>3. popup'[p] \in PopupStates /\ popup'[p].seen = TRUE
      BY <3>1, <3>2, MapsSeen
    <3>4. popup'[p] # None /\ popup'[p].seen
      BY <3>3, NoneAssumption
    <3> QED BY <1>2, <3>2, <3>4, NoneAssumption DEF MappedSeen
  <2>4. ASSUME NEW p \in Popups, UnmapPopup(p) PROVE <1>3
    <3>1. /\ popup[p] # None /\ popup[p] \in PopupStates
          /\ popup' = [popup EXCEPT ![p] = [popup[p] EXCEPT !.mapped = FALSE]]
      BY <1>2, <2>4 DEF UnmapPopup
    <3>2. /\ popup'[p] = [popup[p] EXCEPT !.mapped = FALSE]
          /\ \A q \in Popups \ {p} : popup'[q] = popup[q]
      BY <1>2, <3>1
    <3>3. popup'[p] \in PopupStates /\ popup'[p].seen = popup[p].seen /\ ~popup'[p].mapped
      BY <3>1, <3>2 DEF PopupStates
    <3> QED BY <1>2, <3>2, <3>3, NoneAssumption DEF MappedSeen
  <2> QED BY <2>1, <2>2, <2>3, <2>4 DEF Bind, Unbind
<1>4. Remembered(seat'.popups, popup') /\ Len(seat'.serials) <= MaxSerials
  BY <1>1, <1>3, GrabsStay
<1> QED BY <1>1, <1>3, <1>4, NoInputOK DEF GrabsInv, RestOK

(* Events of the compositor. *)
LEMMA CompositorKeepsGrabs ==
    ASSUME SeatInv, GrabsInv, CompositorStep
    PROVE  GrabsInv'
<1>1. CASE \E w \in Windows : Destroy(w)
  <2>1. PICK w \in Windows : Destroy(w)
    BY <1>1
  <2>2. popup \in [Popups -> {None} \cup PopupStates]
    BY DEF SeatInv, WorldOK
  <2>3. ASSUME NEW q \in Popups, popup[q] # None
        PROVE  popup'[q] # None /\ popup'[q].seen = popup[q].seen
               /\ popup'[q].mapped = popup[q].mapped
    <3>1. popup[q] \in PopupStates
      BY <2>2, <2>3
    <3>2. [popup[q] EXCEPT !.parent = None] \in PopupStates
      BY <3>1 DEF PopupStates
    <3> QED BY <2>1, <2>3, <3>1, <3>2, NoneAssumption DEF Destroy, PopupStates
  <2>4. \A q \in Popups : popup[q] = None => popup'[q] = None
    BY <2>1 DEF Destroy
  <2>5. MappedSeen(popup')
    BY <2>3, <2>4 DEF MappedSeen, GrabsInv
  <2>6. seat' = seat \/ seat' = NoSeat
    BY <2>1 DEF Destroy, RootGone
  <2>7. Remembered(seat'.popups, popup') /\ Len(seat'.serials) <= MaxSerials
    BY <2>3, <2>5, <2>6, GrabsStay
  <2>8. UNCHANGED <<locked, issued>> /\ sent' = NoInput /\ bound' \subseteq Windows
    BY <2>1 DEF Destroy, GrabsInv, RestOK
  <2> QED BY <2>5, <2>7, <2>8, NoInputOK DEF GrabsInv, RestOK
<1>2. CASE ~ \E w \in Windows : Destroy(w)
  <2>1. UNCHANGED <<seat, popup, bound, issued>> /\ sent' = NoInput /\ locked' \in BOOLEAN
    BY <1>2 DEF CompositorStep, Map, Unmap, ShowOrHide, LockOrUnlock, DeadlinePasses,
                worldVars, GrabsInv, RestOK
  <2> QED BY <2>1, NoInputOK DEF GrabsInv, RestOK
<1> QED BY <1>1, <1>2
-----------------------------------------------------------------------------
LEMMA GrabsInvariant == Spec => []GrabsInv
<1>1. Init => GrabsInv
  <2> SUFFICES ASSUME Init PROVE GrabsInv
    OBVIOUS
  <2>1. seat.popups = <<>> /\ seat.serials = <<>>
    BY DEF Init, NoSeat
  <2>2. Remembered(<<>>, popup) /\ Len(seat.serials) <= MaxSerials
    BY <2>1, SeatAssumption DEF Remembered
  <2>3. MappedSeen(popup) /\ GivenOut(issued)
    BY DEF Init, MappedSeen, GivenOut
  <2>4. bound \subseteq Windows /\ locked \in BOOLEAN
    BY DEF Init
  <2> QED BY <2>1, <2>2, <2>3, <2>4, NoInputOK DEF Init, GrabsInv, RestOK
<1>2. ASSUME SeatInv, GrabsInv, [Next]_vars PROVE GrabsInv'
  <2>1. CASE BrokerStep
    BY <1>2, <2>1, RefusalsKeepGrabs, BeginRefusedKeepsGrabs, DeliverKeepsGrabs DEF BrokerStep
  <2>2. CASE ClientStep
    BY <1>2, <2>2, ForgetKeepsGrabs, GrabKeepsGrabs, ClientsKeepGrabs DEF ClientStep
  <2>3. CASE CompositorStep
    BY <1>2, <2>3, CompositorKeepsGrabs
  <2>4. CASE UNCHANGED vars
    BY <1>2, <2>4 DEF vars, worldVars, GrabsInv, RestOK
  <2> QED BY <1>2, <2>1, <2>2, <2>3, <2>4 DEF Next
<1> QED BY <1>1, <1>2, SeatInvariant, PTL DEF Spec
-----------------------------------------------------------------------------
(* The serial that a grab spends is remembered no more. *)
LEMMA SpentIsGone ==
    ASSUME NEW log \in Seq(SerialRecords), NEW k \in DOMAIN log, Distinct(log)
    PROVE  \A j \in DOMAIN RemoveAt(log, k) : RemoveAt(log, k)[j].serial # log[k].serial
<1> SUFFICES ASSUME NEW j \in DOMAIN RemoveAt(log, k)
             PROVE  RemoveAt(log, k)[j].serial # log[k].serial
  OBVIOUS
<1>1. PICK i \in DOMAIN log \ {k} : RemoveAt(log, k)[j] = log[i]
  BY RemoveKeeps
<1> QED BY <1>1 DEF Distinct

(* A popup has a grab after a step that it did not have before only if the  *)
(* step is its grab.                                                        *)
LEMMA GrabsComeByGrab ==
    ASSUME SeatInv, GrabsInv, Next, NEW q \in GrabsOf(seat') \ (GrabsOf(seat) \cup {None})
    PROVE  \E n \in Serials : Grab(q, n)
<1> DEFINE Fewer(s) == \A i \in DOMAIN s.popups :
                           s.popups[i].popup \in GrabsOf(seat) \cup {None}
<1>1. ~Fewer(seat')
  BY DEF GrabsOf
<1>2. Fewer(seat) /\ Fewer(NoSeat) /\ Fewer(Ticked)
  <2>1. Fewer(seat) /\ Fewer(NoSeat)
    BY DEF GrabsOf, NoSeat
  <2> HIDE DEF Fewer
  <2> QED BY <2>1 DEF Ticked
<1>3. ASSUME NEW t \in Tokens, NEW w \in Windows PROVE Fewer(Begun(t, w))
  <2> DEFINE b == IF Ticked.token = t /\ Ticked.root = w THEN Ticked
                  ELSE [NoSeat EXCEPT !.token = t, !.root = w]
  <2>1. Fewer(b)
    BY <1>2 DEF NoSeat
  <2>2. Begun(t, w).popups = Kept(b.popups) /\ b.popups \in Seq(Grabs)
    BY BegunRemembers
  <2> HIDE DEF b
  <2>3. ASSUME NEW k \in DOMAIN Kept(b.popups)
        PROVE  Kept(b.popups)[k].popup \in GrabsOf(seat) \cup {None}
    <3>1. PICK i \in DOMAIN b.popups :
              OpenGrab(b.popups[i]) /\ Kept(b.popups)[k] = Seen(b.popups[i])
      BY <2>2, KeptLists
    <3>2. Seen(b.popups[i]).popup = b.popups[i].popup
      BY <2>2, <3>1, SeenGrab
    <3> QED BY <2>1, <3>1, <3>2
  <2> QED BY <2>2, <2>3
<1>4. CASE BrokerStep
  <2>1. CASE \/ Tick \/ Clear \/ (\E t \in Tokens, w \in Windows : Authorize(t, w))
             \/ (\E t \in Tokens : Revoke(t))
    <3>1. seat' = Ticked \/ seat' = NoSeat
      BY <2>1 DEF Tick, Clear, Authorize, Revoke, Revoked
    <3> HIDE DEF Fewer
    <3> QED BY <1>1, <1>2, <3>1
  <2>2. ASSUME NEW t \in Tokens, NEW x \in Surfaces, BeginRefused(t, x) PROVE FALSE
    <3>1. leases[t].window \in Windows /\ seat' = Begun(t, leases[t].window)
      BY <2>2, BegunFits DEF BeginRefused
    <3> HIDE DEF Fewer
    <3> QED BY <1>1, <1>3, <3>1
  <2>3. ASSUME NEW t \in Tokens, NEW x \in Surfaces, NEW keys \in BOOLEAN,
               NEW chosen \in BOOLEAN, NEW presses \in BOOLEAN,
               Deliver(t, x, keys, chosen, presses)
        PROVE  FALSE
    <3> DEFINE s == Begun(t, leases[t].window)
    <3>1. leases[t].window \in Windows /\ Shaped(s)
      BY <2>3, BegunFits DEF Deliver, Fits
    <3>2. \E f : \/ seat' = [s EXCEPT !.focus = f]
                 \/ \E log : seat' = [s EXCEPT !.focus = f, !.serials = log]
      <4>1. \E f : \/ seat' = [s EXCEPT !.focus = f]
                   \/ \E r : seat' = [s EXCEPT !.focus = f, !.serials = Issue(@, r)]
        BY <2>3 DEF Deliver
      <4> QED BY <4>1
    <3>3. Fewer(s)
      BY <1>3, <3>1
    <3> HIDE DEF s
    <3>4. seat'.popups = s.popups
      BY <3>1, <3>2 DEF Shaped
    <3> QED BY <1>1, <3>3, <3>4
  <2> QED BY <1>4, <2>1, <2>2, <2>3 DEF BrokerStep
<1>5. CASE ClientStep
  <2>1. ASSUME NEW p \in Popups, DestroyPopup(p) PROVE FALSE
    <3>1. Shaped(seat)
      BY DEF SeatInv, Fits
    <3>2. seat'.popups = [i \in DOMAIN seat.popups |->
              IF seat.popups[i].popup \in {p} THEN [seat.popups[i] EXCEPT !.popup = None]
              ELSE seat.popups[i]]
      BY <2>1, <3>1 DEF DestroyPopup, Forget, Shaped
    <3>3. ASSUME NEW i \in DOMAIN seat.popups
          PROVE  seat'.popups[i].popup \in {None, seat.popups[i].popup}
      <4>1. seat.popups[i] \in Grabs
        BY DEF GrabsInv, Remembered
      <4> QED BY <3>2, <4>1 DEF Grabs
    <3> QED BY <1>1, <1>2, <3>2, <3>3
  <2>2. ASSUME NEW p \in Popups, NEW n \in Serials, Grab(p, n) PROVE p = q
    <3>1. Shaped(seat)
      BY DEF SeatInv, Fits
    <3>2. seat'.popups = seat.popups
          \/ seat'.popups = Append(seat.popups, [popup |-> p, mapped |-> FALSE])
      BY <2>2, <3>1 DEF Grab, Shaped
    <3>3. seat'.popups # seat.popups
      BY <1>1, <1>2
    <3>4. seat'.popups = Append(seat.popups, [popup |-> p, mapped |-> FALSE])
      BY <3>2, <3>3
    <3>5. PICK i \in DOMAIN seat'.popups : seat'.popups[i].popup = q
      BY DEF GrabsOf
    <3>6. seat.popups \in Seq(Grabs)
      BY DEF GrabsInv, Remembered
    <3>7. i \in DOMAIN seat.popups \/ seat'.popups[i] = [popup |-> p, mapped |-> FALSE]
      BY <3>4, <3>5, <3>6
    <3>8. i \in DOMAIN seat.popups => seat'.popups[i] = seat.popups[i]
      BY <3>4, <3>6
    <3> QED BY <3>5, <3>7, <3>8 DEF GrabsOf
  <2>3. ASSUME seat' = seat PROVE FALSE
    BY <1>1, <1>2, <2>3
  <2> HIDE DEF Fewer
  <2> QED BY <1>5, <2>1, <2>2, <2>3 DEF ClientStep, Bind, Unbind, CreatePopup, MapPopup,
             UnmapPopup
<1>6. CASE CompositorStep
  <2>1. seat' = seat \/ seat' = NoSeat
    BY <1>6 DEF CompositorStep, Map, Unmap, ShowOrHide, Destroy, LockOrUnlock, DeadlinePasses,
                RootGone
  <2> HIDE DEF Fewer
  <2> QED BY <1>1, <1>2, <2>1
<1> QED BY <1>4, <1>5, <1>6 DEF Next

LEMMA GrabIsPaid ==
    ASSUME SeatInv, GrabsInv, NEW p \in Popups, NEW n \in Serials, Grab(p, n),
           p \in GrabsOf(seat') \ GrabsOf(seat)
    PROVE  /\ Authorized(seat)
           /\ InTree(popup[p].parent, seat.root)
           /\ \E i \in DOMAIN seat.serials :
                 /\ seat.serials[i].serial \in DOMAIN issued
                 /\ issued[seat.serials[i].serial] = seat.token
                 /\ \A j \in DOMAIN seat'.serials :
                       seat'.serials[j].serial # seat.serials[i].serial
<1>1. Authorized(seat) /\ InTree(popup[p].parent, seat.root)
  BY DEF Grab
<1>2. PICK i \in DOMAIN seat.serials :
          \E pps : seat' = [seat EXCEPT !.serials = RemoveAt(seat.serials, i), !.popups = pps]
  BY DEF Grab, Spent
<1>3. /\ Shaped(seat) /\ seat.serials \in Seq(SerialRecords) /\ Distinct(seat.serials)
      /\ Current(seat.serials, seat.token, seat.root, issued)
  BY DEF SeatInv, Fits, Shaped
<1>4. seat'.serials = RemoveAt(seat.serials, i)
  BY <1>2, <1>3 DEF Shaped
<1>5. \A j \in DOMAIN seat'.serials : seat'.serials[j].serial # seat.serials[i].serial
  BY <1>3, <1>4, SpentIsGone
<1> QED BY <1>1, <1>3, <1>5 DEF Current

(* A key that goes where no surface was chosen goes to the newest grab that *)
(* is open: begin() has kept it, and a grab above it that begin() kept too  *)
(* would be of a popup that is not mapped, and refuse the key.              *)
LEMMA KeyFollows ==
    ASSUME SeatInv, GrabsInv, NEW t \in Tokens, NEW x, NEW keys \in BOOLEAN,
           NEW chosen \in BOOLEAN, NEW presses, Deliver(t, x, keys, chosen, presses),
           ~sent'.chosen, seat'.token = seat.token,
           NEW i \in DOMAIN Ticked.popups, Ticked.popups[i].popup # None,
           \/ popup[Ticked.popups[i].popup].mapped
           \/ ~popup[Ticked.popups[i].popup].seen,
           \A j \in DOMAIN Ticked.popups :
               /\ Ticked.popups[j].popup # None
               /\ \/ popup[Ticked.popups[j].popup].mapped
                  \/ ~popup[Ticked.popups[j].popup].seen
               => j <= i
    PROVE  sent'.surface = Ticked.popups[i].popup
<1> DEFINE w == leases[t].window
           s == Begun(t, w)
           y == Target(s, x, keys, chosen)
           grabs == Ticked.popups
<1>1. /\ w \in Windows /\ t \in Live /\ t # None
      /\ s.token = t /\ s.root = w /\ Shaped(s)
  BY BegunFits, SeatAssumption DEF Deliver, Fits
<1>2. sent' = [surface |-> y, chosen |-> chosen \/ ~keys] /\ y # None /\ InTree(y, w)
  BY DEF Deliver
<1>3. keys /\ ~chosen /\ sent'.surface = y
  BY <1>2
<1>4. seat'.token = t
  <2>1. \E f : \/ seat' = [s EXCEPT !.focus = f]
               \/ \E log : seat' = [s EXCEPT !.focus = f, !.serials = log]
    <3>1. \E f : \/ seat' = [s EXCEPT !.focus = f]
                 \/ \E r : seat' = [s EXCEPT !.focus = f, !.serials = Issue(@, r)]
      BY DEF Deliver
    <3> QED BY <3>1
  <2> HIDE DEF s
  <2> QED BY <1>1, <2>1 DEF Shaped
<1>5. Ticked = seat
  BY DEF Ticked, NoSeat
<1>6. Ticked.token = t /\ Ticked.root = w
  <2>1. seat.token = t /\ leases[seat.token].window = seat.root
    BY <1>1, <1>4 DEF SeatInv, Fits, OfLease
  <2> QED BY <1>5, <2>1
<1>7. s.popups = Kept(grabs) /\ grabs \in Seq(Grabs) /\ Remembered(grabs, popup)
  <2>1. s.popups = Kept(grabs) /\ grabs \in Seq(Grabs)
    BY <1>1, <1>6, BegunRemembers
  <2> QED BY <1>5, <2>1 DEF GrabsInv
<1> HIDE DEF w, s, grabs
<1>8. i \in DOMAIN grabs /\ grabs[i] \in Grabs
  BY <1>7 DEF grabs
<1>9. OpenGrab(grabs[i])
  BY <1>7, <1>8 DEF Remembered, OpenGrab, grabs
<1>10. /\ s.popups # <<>>
       /\ \E m \in DOMAIN grabs :
             i <= m /\ OpenGrab(grabs[m]) /\ s.popups[Len(s.popups)] = Seen(grabs[m])
  BY <1>7, <1>8, <1>9, KeptLists
<1>11. PICK m \in DOMAIN grabs :
           i <= m /\ OpenGrab(grabs[m]) /\ s.popups[Len(s.popups)] = Seen(grabs[m])
  BY <1>10
<1>12. y = grabs[m].popup /\ grabs[m].popup \in Popups
  <2>1. grabs[m] \in Grabs
    BY <1>7
  <2>2. Seen(grabs[m]).popup = grabs[m].popup /\ grabs[m].popup \in Popups
    BY <1>11, <2>1, SeenGrab
  <2>3. y = s.popups[Len(s.popups)].popup
    BY <1>3, <1>10 DEF Target, Last
  <2> QED BY <1>11, <2>2, <2>3
<1> HIDE DEF y
<1>13. popup[y].mapped
  BY <1>1, <1>2, <1>12, SeatAssumption DEF InTree
<1>14. m <= i
  BY <1>2, <1>12, <1>13 DEF grabs
<1>15. m = i
  <2>1. m \in Nat /\ i \in Nat
    BY <1>7, <1>8
  <2> QED BY <1>11, <1>14, <2>1
<1> QED BY <1>3, <1>12, <1>15 DEF grabs
-----------------------------------------------------------------------------
(* The seat always belongs to a lease in the table and to its window, or   *)
(* is empty, and its focus exists (reset, revoke, tick and the two destroy *)
(* listeners).                                                             *)
THEOREM OwnsSeat == Spec => []SeatIsOfALease
<1>1. SeatInv => SeatIsOfALease
  BY DEF SeatInv, Fits, OfLease, InFocus, SeatIsOfALease
<1> QED BY <1>1, SeatInvariant, PTL

(* A serial that could pay for a grab comes from the lease the seat has    *)
(* now, and is remembered once (SeatSerials, reset and begin).             *)
THEOREM KeepsSerialsCurrent == Spec => []SerialsCurrent
<1>1. SeatInv => SerialsCurrent
  BY DEF SeatInv, Fits, Current, Distinct, SerialsCurrent
<1> QED BY <1>1, SeatInvariant, PTL

(* The guard and the seat keep the shape their code gives them: at most 128 *)
(* serials and 16 grabs, of surfaces that are there (SeatSerials::issue,    *)
(* protocol).                                                               *)
THEOREM SeatTypes == Spec => []TypeOK
<1>1. SeatInv /\ GrabsInv => TypeOK
  <2> SUFFICES ASSUME SeatInv, GrabsInv PROVE TypeOK
    OBVIOUS
  <2>1. Shaped(seat) /\ seat.popups \in Seq(Grabs) /\ Len(seat.popups) <= MaxPopups
    BY DEF SeatInv, Fits, GrabsInv, Remembered
  <2>2. seat \in Seats
    BY <2>1 DEF Shaped, Seats
  <2> QED BY <2>1, <2>2 DEF SeatInv, WorldOK, GrabsInv, RestOK, GivenOut, TypeOK
<1> QED BY <1>1, SeatInvariant, GrabsInvariant, PTL

(* A popup gets a grab only while the lease stands and its parent is in the *)
(* live tree, for a serial of this lease that is spent with it (protocol,   *)
(* grab).                                                                   *)
THEOREM PaysForGrabs == Spec => GrabsArePaid
<1> DEFINE Paid(p) ==
             /\ Authorized(seat)
             /\ InTree(popup[p].parent, seat.root)
             /\ \E i \in DOMAIN seat.serials :
                   LET n == seat.serials[i].serial IN
                   /\ n \in DOMAIN issued /\ issued[n] = seat.token
                   /\ \A j \in DOMAIN seat'.serials : seat'.serials[j].serial # n
           AllPaid == \A p \in GrabsOf(seat') \ (GrabsOf(seat) \cup {None}) : Paid(p)
<1>1. SeatInv /\ GrabsInv /\ GrabsInv' /\ [Next]_vars => [AllPaid]_vars
  <2> SUFFICES ASSUME SeatInv, GrabsInv, GrabsInv', Next,
                      NEW p \in GrabsOf(seat') \ (GrabsOf(seat) \cup {None})
               PROVE  Paid(p)
    OBVIOUS
  <2>1. PICK n \in Serials : Grab(p, n)
    BY GrabsComeByGrab
  <2>2. p \in Popups
    <3>1. PICK i \in DOMAIN seat'.popups : seat'.popups[i].popup = p
      BY DEF GrabsOf
    <3>2. seat'.popups[i] \in Grabs
      BY DEF GrabsInv, Remembered
    <3> QED BY <3>1, <3>2 DEF Grabs
  <2> QED BY <2>1, <2>2, GrabIsPaid
<1> QED BY <1>1, SeatInvariant, GrabsInvariant, PTL DEF Spec, GrabsArePaid

(* A key for no chosen surface goes to the newest popup whose grab is open  *)
(* or about to open, or nowhere (begin).                                    *)
THEOREM KeysGoToTheGrab == Spec => KeysFollowTheGrab
<1> DEFINE Open(g) == g.popup # None /\ (popup[g.popup].mapped \/ ~popup[g.popup].seen)
           open == {i \in DOMAIN Ticked.popups : Open(Ticked.popups[i])}
           Follows == ~sent'.chosen /\ seat'.token = seat.token =>
                        \A i \in open : (\A j \in open : j <= i) =>
                            sent'.surface = Ticked.popups[i].popup
<1>1. SeatInv /\ GrabsInv /\ [Next]_vars => [Follows]_vars
  <2> SUFFICES ASSUME SeatInv, GrabsInv, Next, ~sent'.chosen, seat'.token = seat.token,
                      NEW i \in open, \A j \in open : j <= i
               PROVE  sent'.surface = Ticked.popups[i].popup
    OBVIOUS
  <2>1. sent' # NoInput
    BY DEF NoInput
  <2>2. PICK t \in Tokens, x \in Surfaces, k, c, n \in BOOLEAN : Deliver(t, x, k, c, n)
    BY <2>1 DEF Next, BrokerStep, ClientStep, CompositorStep, Tick, Clear, Authorize, Revoke,
                BeginRefused, Bind, Unbind, CreatePopup, MapPopup, UnmapPopup, DestroyPopup,
                Grab, Map, Unmap, ShowOrHide, Destroy, LockOrUnlock, DeadlinePasses
  <2> QED BY <2>2, KeyFollows
<1> QED BY <1>1, SeatInvariant, GrabsInvariant, PTL DEF Spec, KeysFollowTheGrab
=============================================================================
