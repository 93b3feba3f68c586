--------------------------- MODULE MailPickupProofs ---------------------------
(***************************************************************************)
(* No address is listed twice, what is saved can be restored, a mailbox    *)
(* that is listened to is polled and every variable keeps its type, for    *)
(* any addresses and bounds.  The lists are good because every list a      *)
(* closure may keep, read long ago or restored, is.                        *)
(***************************************************************************)
EXTENDS MailPickup, TLAPS

Boxes(I) == [id : I, addr : Addr, on : {"no", "yes", "text"}, mail : BOOLEAN]

\* A list of mailboxes with ids of I, no address twice and no id twice.
GoodList(l, I) ==
  /\ l \subseteq Boxes(I)
  /\ \A m, n \in l : m.addr = n.addr \/ m.id = n.id => m = n

\* What can be restored: the saved mailbox is in the list, if there is a list.
GoodSave(v, I) ==
  \/ v = None
  \/ /\ v \in [id : I, addr : Addr, list : SUBSET Boxes(I)] /\ GoodList(v.list, I)
     /\ v.list # {} => \E m \in v.list : m.id = v.id /\ m.addr = v.addr

\* The ids that have been given.
Given == 1..nextId

PickupInv ==
  /\ GoodList(list, Given) /\ GoodSave(saved, Given)
  /\ \A r \in random : GoodList(r.list, Given)
  /\ nextId \in Nat

-----------------------------------------------------------------------------
(* The page and the instances *)

\* A callback lives as long as its instance, whose flag is only cleared after it.
PageOK ==
  /\ tab \in {"closed", "opening", "open", "crashed"}
  /\ pending \in Addr \cup {None} /\ wanted \in Addr \cup {None}
  /\ callback \in {"none", "live", "dead"} /\ flag \in BOOLEAN /\ resetting \in BOOLEAN
  /\ callback = "live" => tab = "open" /\ flag /\ ~resetting
  /\ resetting => flag

\* The page, however the tab is opened, left and crashes.
LEMMA PageStep == PageOK /\ [Next]_vars => PageOK'
<1> SUFFICES ASSUME PageOK, [Next]_vars PROVE PageOK'
  OBVIOUS
<1> USE DEF PageOK
<1>1. UNCHANGED pageVars => PageOK'
  BY DEF pageVars
<1>2. ASSUME NEW a \in Addr, PickUp(a) PROVE PageOK'
  <2>1. /\ UNCHANGED <<callback, flag, resetting>>
        /\ tab' = IF tab = "closed" THEN "opening" ELSE tab
    BY <1>2 DEF PickUp
  <2>2. pending' \in Addr \cup {None} /\ wanted' \in Addr \cup {None}
    BY <1>2 DEF PickUp
  <2> QED
    BY <2>1, <2>2
<1>3. CASE OpenTab \/ Retry \/ ResetFlag \/ Reload
  <2>1. CASE OpenTab \/ Retry
    BY <2>1 DEF OpenTab, Retry
  <2>2. CASE ResetFlag
    BY <2>2 DEF ResetFlag
  <2>3. CASE Reload
    BY <2>3 DEF Reload
  <2> QED
    BY <1>3, <2>1, <2>2, <2>3
<1>4. CASE Mount
  <2>1. wanted' \in Addr \cup {None} /\ pending' \in Addr \cup {None}
    BY <1>4 DEF Mount
  <2> QED
    BY <1>4, <2>1 DEF Mount
<1>5. CASE CloseTab \/ Crash
  BY <1>5 DEF CloseTab, Crash, Unmount
<1>6. CASE Expire \/ AccountsLoaded \/ AskRandom \/ CloseModal \/ ConfigCreated
  BY <1>1, <1>6 DEF Expire, AccountsLoaded, AskRandom, CloseModal, ConfigCreated, Start
<1>7. ASSUME NEW a \in Addr,
             \/ MailArrives(a)
             \/ \E fromAccount \in BOOLEAN : AddMailbox(a, fromAccount)
             \/ \E i \in Inst : TimeoutPasses(i, a)
      PROVE  PageOK'
  BY <1>1, <1>7 DEF MailArrives, AddMailbox, TimeoutPasses
<1>8. ASSUME NEW m \in list, Select(m) \/ Stop(m) \/ Remove(m) \/ PressStart(m)
      PROVE  PageOK'
  BY <1>1, <1>8 DEF Select, Stop, Remove, PressStart, Start
<1>9. ASSUME NEW s \in DOMAIN call,
             ConfigAnswered(s) \/ Check(s) \/ Answered(s) \/ CheckFails(s)
      PROVE  PageOK'
  BY <1>1, <1>9 DEF ConfigAnswered, Check, Answered, CheckFails
<1>10. ASSUME NEW r \in random, RandomFails(r) \/ \E a \in Addr : RandomAnswered(r, a)
       PROVE  PageOK'
  BY <1>1, <1>10 DEF RandomFails, RandomAnswered
<1>11. ASSUME NEW w \in arrived, NewerArrives(w) PROVE PageOK'
  BY <1>1, <1>11 DEF NewerArrives
<1>12. CASE UNCHANGED vars
  BY <1>1, <1>12 DEF vars, tabVars
<1> QED
  BY <1>2, <1>3, <1>4, <1>5, <1>6, <1>7, <1>8, <1>9, <1>10, <1>11, <1>12 DEF Next, Step

-----------------------------------------------------------------------------
(* What the operators on lists preserve *)

\* The list of a page that is loaded anew.
LEMMA EmptyList == \A I : GoodList({}, I)
BY DEF GoodList

\* More ids may be given later.
LEMMA GoodMore ==
  ASSUME NEW I, NEW J, I \subseteq J
  PROVE  /\ \A l : GoodList(l, I) => GoodList(l, J)
         /\ \A v : GoodSave(v, I) => GoodSave(v, J)
<1>1. ASSUME NEW m \in Boxes(I) PROVE m \in Boxes(J)
  BY <1>1 DEF Boxes
<1>2. ASSUME NEW l, GoodList(l, I) PROVE GoodList(l, J)
  BY <1>1, <1>2 DEF GoodList
<1>3. ASSUME NEW v, GoodSave(v, I) PROVE GoodSave(v, J)
  <2>1. CASE v = None
    BY <2>1 DEF GoodSave
  <2>2. CASE v # None
    <3>1. /\ v \in [id : I, addr : Addr, list : SUBSET Boxes(I)] /\ GoodList(v.list, I)
          /\ v.list # {} => \E m \in v.list : m.id = v.id /\ m.addr = v.addr
      BY <1>3, <2>2 DEF GoodSave
    <3>2. v \in [id : J, addr : Addr, list : SUBSET Boxes(J)]
      BY <1>1, <3>1
    <3>3. GoodList(v.list, J)
      BY <1>2, <3>1
    <3> QED
      BY <3>1, <3>2, <3>3 DEF GoodSave
  <2> QED
    BY <2>1, <2>2
<1> QED
  BY <1>2, <1>3

\* A change of the mailboxes that leaves their addresses and ids.
LEMMA MapGood ==
  ASSUME NEW I, NEW l, GoodList(l, I), NEW f,
         \A m \in l : f[m] \in Boxes(I) /\ f[m].addr = m.addr /\ f[m].id = m.id
  PROVE  GoodList({f[m] : m \in l}, I)
BY DEF GoodList

\* Starting or stopping to listen to a mailbox.
LEMMA SetOnGood ==
  ASSUME NEW I, NEW l, GoodList(l, I), NEW id, NEW on \in {"no", "yes"}
  PROVE  GoodList(SetOn(l, id, on), I)
<1> DEFINE f == [m \in l |-> IF m.id = id THEN [m EXCEPT !.on = on] ELSE m]
<1>1. ASSUME NEW m \in l
      PROVE  f[m] \in Boxes(I) /\ f[m].addr = m.addr /\ f[m].id = m.id
  <2>1. m \in Boxes(I)
    BY DEF GoodList
  <2> QED
    BY <2>1 DEF Boxes
<1>2. SetOn(l, id, on) = {f[m] : m \in l}
  BY DEF SetOn
<1> HIDE DEF f
<1> QED
  BY <1>1, <1>2, MapGood

\* Reading a list from the localStorage.
LEMMA ParsedGood ==
  ASSUME NEW I, NEW l, GoodList(l, I)
  PROVE  GoodList(Parsed(l), I)
<1> DEFINE f == [m \in l |-> IF m.on = "yes" THEN [m EXCEPT !.on = "text"] ELSE m]
<1>1. ASSUME NEW m \in l
      PROVE  f[m] \in Boxes(I) /\ f[m].addr = m.addr /\ f[m].id = m.id
  <2>1. m \in Boxes(I)
    BY DEF GoodList
  <2> QED
    BY <2>1 DEF Boxes
<1>2. Parsed(l) = {f[m] : m \in l}
  BY DEF Parsed
<1> HIDE DEF f
<1> QED
  BY <1>1, <1>2, MapGood

\* Putting received mails into a list.
LEMMA WithMailsGood ==
  ASSUME NEW I, NEW l, GoodList(l, I), NEW s
  PROVE  GoodList(WithMails(s, l), I)
<1> DEFINE f == [m \in l |-> IF m.addr = call[s].addr /\ \E w \in arrived : Finds(s, w)
                               THEN [m EXCEPT !.mail = TRUE] ELSE m]
<1>1. ASSUME NEW m \in l
      PROVE  f[m] \in Boxes(I) /\ f[m].addr = m.addr /\ f[m].id = m.id
  <2>1. m \in Boxes(I)
    BY DEF GoodList
  <2> QED
    BY <2>1 DEF Boxes
<1>2. WithMails(s, l) = {f[m] : m \in l}
  BY DEF WithMails
<1> HIDE DEF f
<1> QED
  BY <1>1, <1>2, MapGood

\* Adding a mailbox to a list, however old, gives a list that can be saved with
\* the mailbox selected.
LEMMA AddedGood ==
  ASSUME NEW l, GoodList(l, Given), NEW a \in Addr, nextId \in Nat
  PROVE  LET x == Added(l, a)
         IN /\ x.next \in {nextId, nextId + 1} /\ x.id \in 1..x.next
            /\ GoodList(x.list, 1..x.next) /\ GoodSave(SavedAs(x, a), 1..x.next)
<1>1. CASE a \in Addresses(l)
  <2>1. PICK m \in l : m.addr = a
    BY <1>1 DEF Addresses
  <2> DEFINE c == CHOOSE n \in l : n.addr = a
  <2>2. c \in l /\ c.addr = a
    BY <2>1
  <2>3. IdOf(l, a) = c.id
    BY <1>1 DEF IdOf
  <2>4. Added(l, a) = [id |-> c.id, list |-> l, next |-> nextId]
    BY <1>1, <2>3 DEF Added
  <2> HIDE DEF c
  <2>5. SavedAs(Added(l, a), a) = [id |-> c.id, addr |-> a, list |-> l]
    BY <2>4 DEF SavedAs
  <2>6. c.id \in Given /\ l \subseteq Boxes(Given)
    BY <2>2 DEF GoodList, Boxes
  <2>7. GoodSave([id |-> c.id, addr |-> a, list |-> l], Given)
    BY <2>2, <2>6 DEF GoodSave
  <2>8. Added(l, a).next = nextId /\ Added(l, a).id = c.id /\ Added(l, a).list = l
    BY <2>4
  <2> QED
    BY <2>5, <2>6, <2>7, <2>8 DEF Given
<1>2. CASE a \notin Addresses(l)
  <2> DEFINE n == NewMailbox(a)
            J == 1..(nextId + 1)
  <2>1. nextId + 1 \in J /\ nextId + 1 \notin Given /\ Given \subseteq J
    BY DEF Given
  <2>2. Added(l, a) = [id |-> nextId + 1, list |-> l \cup {n}, next |-> nextId + 1]
    BY <1>2 DEF Added
  <2>3. n = [id |-> nextId + 1, addr |-> a, on |-> "no", mail |-> FALSE]
    BY DEF NewMailbox
  <2> HIDE DEF J, n
  <2>4. n \in Boxes(J) /\ n.addr = a /\ n.id = nextId + 1
    BY <2>1, <2>3 DEF Boxes
  <2>5. GoodList(l, J) /\ \A m \in l : m.addr # a /\ m.id # nextId + 1
    BY <1>2, <2>1, GoodMore DEF GoodList, Addresses, Boxes
  <2>6. GoodList(l \cup {n}, J)
    BY <2>4, <2>5 DEF GoodList
  <2>7. SavedAs(Added(l, a), a) = [id |-> nextId + 1, addr |-> a, list |-> l \cup {n}]
    BY <2>2 DEF SavedAs
  <2>8. GoodSave([id |-> nextId + 1, addr |-> a, list |-> l \cup {n}], J)
    BY <2>1, <2>4, <2>6 DEF GoodSave, GoodList
  <2>9. /\ Added(l, a).next = nextId + 1 /\ Added(l, a).id = nextId + 1
        /\ Added(l, a).list = l \cup {n}
    BY <2>2
  <2> QED
    BY <2>1, <2>6, <2>7, <2>8, <2>9 DEF J
<1> QED
  BY <1>1, <1>2

\* The effect that saves the rendered list saves one that can be restored.
LEMMA BecomesGood ==
  ASSUME NEW I, NEW l, GoodList(l, I), NEW sv, GoodSave(sv, I), NEW sel, NEW sk,
         Becomes(l, sel, sk, sv)
  PROVE  GoodList(list', I) /\ GoodSave(saved', I)
<1>1. GoodList(list', I)
  BY DEF Becomes
<1>2. CASE ~sk /\ \E m \in l : m.id = sel
  <2> DEFINE c == CHOOSE m \in l : m.id = sel
  <2>1. c \in l /\ c.id = sel
    BY <1>2
  <2>2. saved' = [id |-> sel, addr |-> c.addr, list |-> l]
    BY <1>2 DEF Becomes
  <2> HIDE DEF c
  <2>3. c.addr \in Addr /\ sel \in I /\ l \subseteq Boxes(I)
    BY <2>1 DEF GoodList, Boxes
  <2> QED
    BY <1>1, <2>1, <2>2, <2>3 DEF GoodSave
<1>3. CASE ~(~sk /\ \E m \in l : m.id = sel)
  <2>1. saved' = sv
    BY <1>3 DEF Becomes
  <2> QED
    BY <1>1, <2>1
<1> QED
  BY <1>2, <1>3

\* A change of the list alone, with the effect that follows it.
LEMMA RelistGood ==
  ASSUME PickupInv, NEW l, GoodList(l, Given), Relist(l)
  PROVE  GoodList(list', Given) /\ GoodSave(saved', Given)
BY BecomesGood DEF Relist, PickupInv

\* A step that gives one id, or none, and leaves no more random address requests.
LEMMA StepGood ==
  ASSUME PickupInv, nextId' \in {nextId, nextId + 1}, random' \subseteq random,
         GoodList(list', Given'), GoodSave(saved', Given')
  PROVE  PickupInv'
<1>1. nextId' \in Nat /\ Given \subseteq Given'
  BY DEF PickupInv, Given
<1> QED
  BY <1>1, GoodMore DEF PickupInv

\* One that gives no id.
LEMMA StepKeeps ==
  ASSUME PickupInv, nextId' = nextId, random' \subseteq random,
         GoodList(list', Given), GoodSave(saved', Given)
  PROVE  PickupInv'
<1>1. Given' = Given
  BY DEF Given
<1> QED
  BY <1>1, StepGood

-----------------------------------------------------------------------------
(* The hand-over and the restoring *)

\* An address that is added to an empty list.
LEMMA AddedAlone ==
  ASSUME NEW a \in Addr, nextId \in Nat, nextId' = nextId + 1
  PROVE  LET x == Added({}, a)
         IN /\ x.id = nextId + 1 /\ x.id \in Given'
            /\ GoodList(x.list, Given') /\ GoodSave(SavedAs(x, a), Given')
<1>1. a \notin Addresses({})
  BY DEF Addresses
<1>2. Added({}, a).next = nextId' /\ Added({}, a).id = nextId + 1
  BY <1>1 DEF Added
<1>3. Given' = 1..Added({}, a).next
  BY <1>2 DEF Given
<1> QED
  BY <1>2, <1>3, EmptyList, AddedGood

\* A hand-over replaces list and saved list by others that can be kept.
LEMMA HandOverGood ==
  ASSUME PickupInv, NEW a \in Addr, HandOver(a)
  PROVE  GoodList(list', Given') /\ GoodSave(saved', Given')
<1> DEFINE l == Added({}, a).list
           sv == [id |-> nextId + 1, addr |-> a, list |-> {}]
<1>1. nextId' = nextId + 1 /\ nextId \in Nat
  BY DEF HandOver, PickupInv
<1>2. GoodList(l, Given') /\ nextId + 1 \in Given'
  BY <1>1, AddedAlone
<1>3. GoodSave(sv, Given')
  BY <1>2, EmptyList DEF GoodSave
<1>4. Becomes(l, nextId + 1, TRUE, sv)
  BY DEF HandOver
<1> HIDE DEF l, sv
<1> QED
  BY <1>2, <1>3, <1>4, BecomesGood

\* So do the effects of the first render, whatever had been saved.
LEMMA RestoreGood ==
  ASSUME PickupInv, Restore
  PROVE  /\ nextId' \in {nextId, nextId + 1}
         /\ GoodList(list', Given') /\ GoodSave(saved', Given')
<1> USE DEF PickupInv
<1>1. CASE saved = None
  <2>1. GoodSave(None, Given) /\ nextId' = nextId
    BY <1>1 DEF GoodSave, Restore
  <2>2. GoodList(list', Given) /\ GoodSave(saved', Given)
    BY <1>1, <2>1, EmptyList, BecomesGood DEF Restore
  <2> QED
    BY <2>1, <2>2 DEF Given
<1>2. CASE saved # None /\ saved.list # {}
  <2>1. GoodList(Parsed(saved.list), Given)
    BY <1>2, ParsedGood DEF GoodSave
  <2>2. Becomes(Parsed(saved.list), saved.id, TRUE, saved) /\ nextId' = nextId
    BY <1>2 DEF Restore
  <2>3. GoodList(list', Given) /\ GoodSave(saved', Given)
    BY <2>1, <2>2, BecomesGood
  <2> QED
    BY <2>2, <2>3 DEF Given
<1>3. CASE saved # None /\ saved.list = {}
  <2> DEFINE x == Added({}, saved.addr)
  <2>1. saved.addr \in Addr /\ nextId' = nextId + 1
    BY <1>3 DEF GoodSave, Restore
  <2>2. GoodList(x.list, Given') /\ GoodSave(SavedAs(x, saved.addr), Given')
    BY <2>1, AddedAlone
  <2>3. Becomes(x.list, saved.id, TRUE, SavedAs(x, saved.addr))
    BY <1>3 DEF Restore
  <2> HIDE DEF x
  <2> QED
    BY <2>1, <2>2, <2>3, BecomesGood
<1> QED
  BY <1>1, <1>2, <1>3

-----------------------------------------------------------------------------
(* Every step keeps the lists *)

\* The listening that begins after the answer about the configuration.
LEMMA BeginsGood ==
  ASSUME PickupInv, NEW i, NEW m, Begins(i, m)
  PROVE  GoodList(list', Given) /\ GoodSave(saved', Given)
<1>1. GoodList(SetOn(list, m.id, "yes"), Given)
  BY SetOnGood DEF PickupInv
<1> QED
  BY <1>1, RelistGood DEF Begins, listVars, PickupInv

\* The button, or a new configuration, starts a mailbox.
LEMMA StartGood ==
  ASSUME PickupInv, NEW m, Start(m)
  PROVE  PickupInv'
<1>1. \/ Begins(inst, m)
      \/ UNCHANGED <<listVars, ref, arrived>>
  BY DEF Start
<1>2. UNCHANGED <<pageVars, nextId, random>>
  BY DEF Start
<1>3. GoodList(list', Given) /\ GoodSave(saved', Given)
  BY <1>1, BeginsGood DEF PickupInv, listVars
<1> QED
  BY <1>2, <1>3, StepKeeps

\* What the user does to a mailbox of the list without removing it.
LEMMA SelectionStep ==
  ASSUME PickupInv, NEW m \in list, Select(m) \/ Stop(m) \/ PressStart(m)
  PROVE  PickupInv'
<1>1. CASE Select(m)
  <2>1. GoodList(list', Given) /\ GoodSave(saved', Given)
    BY <1>1, BecomesGood DEF Select, PickupInv
  <2> QED
    BY <1>1, <2>1, StepKeeps DEF Select
<1>2. CASE Stop(m)
  <2>1. GoodList(SetOn(list, m.id, "no"), Given)
    BY SetOnGood DEF PickupInv
  <2>2. GoodList(list', Given) /\ GoodSave(saved', Given)
    BY <1>2, <2>1, RelistGood DEF Stop
  <2> QED
    BY <1>2, <2>2, StepKeeps DEF Stop
<1>3. CASE PressStart(m)
  BY <1>3, StartGood DEF PressStart
<1> QED
  BY <1>1, <1>2, <1>3

\* A removed mailbox is not what is saved as selected.
LEMMA RemoveGood ==
  ASSUME PickupInv, NEW m \in list, Remove(m)
  PROVE  PickupInv'
<1> USE DEF PickupInv
<1> DEFINE left == list \ {m}
           save(n) == [id |-> n.id, addr |-> n.addr, list |-> left]
<1>1. GoodList(left, Given)
  BY DEF GoodList
<1>2. ASSUME NEW n \in left PROVE GoodSave(save(n), Given)
  <2>1. n \in Boxes(Given) /\ left \subseteq Boxes(Given)
    BY <1>1 DEF GoodList
  <2>2. n.id \in Given /\ n.addr \in Addr
    BY <2>1 DEF Boxes
  <2> QED
    BY <1>1, <2>1, <2>2 DEF GoodSave
<1>3. GoodSave(None, Given)
  BY DEF GoodSave
<1>4. UNCHANGED <<pageVars, nextId, random>>
  BY DEF Remove
<1>5. \E sel, sv : Becomes(left, sel, skip, sv) /\ GoodSave(sv, Given)
  <2>1. CASE selected # m.id /\ \E n \in left : n.id = selected
    <3> DEFINE c == CHOOSE n \in left : n.id = selected
    <3>1. c \in left
      BY <2>1
    <3>2. Becomes(left, selected, skip, save(c))
      BY <2>1 DEF Remove
    <3> QED
      BY <3>1, <3>2, <1>2
  <2>2. CASE selected # m.id /\ ~\E n \in left : n.id = selected
    <3>1. Becomes(left, selected, skip, saved)
      BY <2>2 DEF Remove
    <3> QED
      BY <3>1
  <2>3. CASE selected = m.id /\ left = {}
    <3>1. Becomes(left, 0, skip, None)
      BY <2>3 DEF Remove
    <3> QED
      BY <3>1, <1>3
  <2>4. CASE selected = m.id /\ left # {}
    <3>1. PICK n \in left : Becomes(left, 0, skip, save(n))
      BY <2>4 DEF Remove
    <3> QED
      BY <3>1, <1>2
  <2> QED
    BY <2>1, <2>2, <2>3, <2>4
<1> HIDE DEF PickupInv
<1>6. GoodList(list', Given) /\ GoodSave(saved', Given)
  BY <1>1, <1>5, BecomesGood
<1> QED
  BY <1>4, <1>6, StepKeeps

\* A mailbox picked in the accounts tab, whoever answers the hand-over.
LEMMA PickUpGood ==
  ASSUME PageOK, PickupInv, NEW a \in Addr, PickUp(a)
  PROVE  PickupInv'
<1>1. random' = random
  BY DEF PickUp
<1>2. CASE HandOver(a)
  BY <1>1, <1>2, HandOverGood, StepGood DEF HandOver
<1>3. CASE HandOverToDead(a)
  <2>1. nextId' = nextId + 1 /\ list' = list
    BY <1>3 DEF HandOverToDead
  <2>2. nextId + 1 \in Given' /\ Given \subseteq Given'
    BY <2>1 DEF Given, PickupInv
  <2>3. GoodSave([id |-> nextId + 1, addr |-> a, list |-> {}], Given')
    BY <2>2, EmptyList DEF GoodSave
  <2>4. GoodList(list', Given') /\ GoodSave(saved', Given')
    BY <1>3, <2>1, <2>2, <2>3, GoodMore DEF HandOverToDead, PickupInv
  <2> QED
    BY <1>1, <2>1, <2>4, StepGood
<1>4. CASE UNCHANGED <<listVars, nextId>>
  BY <1>1, <1>4, StepKeeps DEF PickupInv, listVars
<1> QED
  BY <1>2, <1>3, <1>4 DEF PickUp, PageOK

\* Opening, closing, crashing and reloading.
LEMMA VisitGood ==
  ASSUME PickupInv,
         OpenTab \/ Mount \/ CloseTab \/ Crash \/ Retry \/ ResetFlag \/ Reload \/ Expire,
         PageOK
  PROVE  PickupInv'
<1>1. CASE Mount
  <2>1. CASE Restore
    BY <1>1, <2>1, RestoreGood, StepGood DEF Mount
  <2>2. CASE pending # None /\ HandOver(pending)
    BY <1>1, <2>2, HandOverGood, StepGood DEF Mount, HandOver, PageOK
  <2> QED
    BY <1>1, <2>1, <2>2 DEF Mount
<1>2. CASE OpenTab \/ Retry \/ ResetFlag
  BY <1>2, StepKeeps DEF OpenTab, Retry, ResetFlag, listVars, PickupInv
<1>3. CASE CloseTab \/ Crash \/ Reload
  <2>1. list' = {} /\ UNCHANGED <<saved, nextId>> /\ random' \subseteq random
    BY <1>3 DEF CloseTab, Crash, Unmount, Reload
  <2> QED
    BY <2>1, EmptyList, StepKeeps DEF PickupInv
<1>4. CASE Expire
  BY <1>4, StepKeeps DEF Expire, GoodSave, PickupInv
<1> QED
  BY <1>1, <1>2, <1>3, <1>4

\* An address added by the user.
LEMMA AddGood ==
  ASSUME PickupInv, NEW a \in Addr, NEW fromAccount, AddMailbox(a, fromAccount)
  PROVE  PickupInv'
<1> DEFINE x == Added(list, a)
<1>1. /\ GoodList(x.list, 1..x.next) /\ GoodSave(SavedAs(x, a), 1..x.next)
      /\ x.next \in {nextId, nextId + 1}
  BY AddedGood DEF PickupInv
<1>2. \E sel, sk : Becomes(x.list, sel, sk, SavedAs(x, a))
  BY DEF AddMailbox
<1>3. nextId' = x.next /\ random' = random
  BY DEF AddMailbox
<1> HIDE DEF x
<1>4. GoodList(list', Given') /\ GoodSave(saved', Given')
  BY <1>1, <1>2, <1>3, BecomesGood DEF Given
<1> QED
  BY <1>1, <1>3, <1>4, StepGood

\* The random address, added to the list of the render it was asked in.
LEMMA RandomGood ==
  ASSUME PickupInv, NEW r \in random, NEW a \in Addr, RandomAnswered(r, a)
  PROVE  PickupInv'
<1> DEFINE x == Added(r.list, a)
<1>1. /\ GoodList(x.list, 1..x.next) /\ GoodSave(SavedAs(x, a), 1..x.next)
      /\ x.next \in {nextId, nextId + 1}
  BY AddedGood DEF PickupInv, RandomAnswered
<1>2. nextId' = x.next /\ random' \subseteq random
  BY DEF RandomAnswered
<1>3. \/ saved' = SavedAs(x, a) /\ list' = list
      \/ Becomes(list, selected, skip, SavedAs(x, a))
      \/ Becomes(x.list, selected, skip, SavedAs(x, a))
  BY DEF RandomAnswered
<1> HIDE DEF x
<1>4. Given' = 1..x.next /\ Given \subseteq Given'
  BY <1>1, <1>2 DEF Given, PickupInv
<1>5. GoodList(list, Given')
  BY <1>4, GoodMore DEF PickupInv
<1>6. GoodList(list', Given') /\ GoodSave(saved', Given')
  BY <1>1, <1>3, <1>4, <1>5, BecomesGood
<1> QED
  BY <1>1, <1>2, <1>6, StepGood

\* The answer to a check, of any instance.
LEMMA AnsweredGood ==
  ASSUME PickupInv, NEW s, Answered(s)
  PROVE  PickupInv'
<1> DEFINE l == WithMails(s, list)
<1>1. GoodList(l, Given) /\ GoodList(SetOn(l, call[s].knows, "no"), Given)
  BY WithMailsGood, SetOnGood DEF PickupInv
<1>2. \/ Relist(l) \/ Relist(SetOn(l, call[s].knows, "no"))
      \/ UNCHANGED listVars
  BY DEF Answered
<1>3. UNCHANGED <<pageVars, nextId, random>>
  BY DEF Answered
<1> HIDE DEF l
<1>4. GoodList(list', Given) /\ GoodSave(saved', Given)
  BY <1>1, <1>2, RelistGood DEF PickupInv, listVars
<1> QED
  BY <1>3, <1>4, StepKeeps

\* The requests and timers of a listening.
LEMMA CheckStep ==
  ASSUME PickupInv, NEW s \in DOMAIN call,
         ConfigAnswered(s) \/ Check(s) \/ Answered(s) \/ CheckFails(s)
  PROVE  PickupInv'
<1>1. CASE ConfigAnswered(s)
  <2>1. \/ Begins(call[s].inst, call[s])
        \/ UNCHANGED <<listVars, ref, arrived>>
    BY <1>1 DEF ConfigAnswered
  <2>2. UNCHANGED <<pageVars, nextId, random>>
    BY <1>1 DEF ConfigAnswered
  <2>3. GoodList(list', Given) /\ GoodSave(saved', Given)
    BY <2>1, BeginsGood DEF PickupInv, listVars
  <2> QED
    BY <2>2, <2>3, StepKeeps
<1>2. CASE Answered(s)
  BY <1>2, AnsweredGood
<1>3. CASE Check(s) \/ CheckFails(s)
  BY <1>3, StepKeeps DEF Check, CheckFails, PickupInv, listVars
<1> QED
  BY <1>1, <1>2, <1>3

\* Every step keeps the lists.
LEMMA PickupStep == PageOK /\ PickupInv /\ [Next]_vars => PickupInv'
<1> SUFFICES ASSUME PageOK, PickupInv, [Next]_vars PROVE PickupInv'
  OBVIOUS
<1>1. CASE OpenTab \/ Mount \/ CloseTab \/ Crash \/ Retry \/ ResetFlag \/ Reload \/ Expire
  BY <1>1, VisitGood
<1>2. CASE AccountsLoaded \/ CloseModal
  BY <1>2, StepKeeps DEF AccountsLoaded, CloseModal, PickupInv, listVars
<1>3. CASE AskRandom
  BY <1>3 DEF AskRandom, PickupInv, listVars, Given
<1>4. CASE ConfigCreated
  BY <1>4, StartGood DEF ConfigCreated
<1>5. ASSUME NEW a \in Addr,
             \/ PickUp(a) \/ MailArrives(a)
             \/ \E fromAccount \in BOOLEAN : AddMailbox(a, fromAccount)
             \/ \E i \in Inst : TimeoutPasses(i, a)
      PROVE  PickupInv'
  <2>1. CASE MailArrives(a) \/ \E i \in Inst : TimeoutPasses(i, a)
    BY <2>1, StepKeeps DEF MailArrives, TimeoutPasses, PickupInv, listVars
  <2> QED
    BY <1>5, <2>1, PickUpGood, AddGood
<1>6. ASSUME NEW m \in list, Select(m) \/ Stop(m) \/ Remove(m) \/ PressStart(m)
      PROVE  PickupInv'
  BY <1>6, SelectionStep, RemoveGood
<1>7. ASSUME NEW s \in DOMAIN call,
             ConfigAnswered(s) \/ Check(s) \/ Answered(s) \/ CheckFails(s)
      PROVE  PickupInv'
  BY <1>7, CheckStep
<1>8. ASSUME NEW r \in random, RandomFails(r) \/ \E a \in Addr : RandomAnswered(r, a)
      PROVE  PickupInv'
  <2>1. CASE RandomFails(r)
    BY <2>1, StepKeeps DEF RandomFails, PickupInv, listVars
  <2> QED
    BY <1>8, <2>1, RandomGood
<1>9. ASSUME NEW w \in arrived, NewerArrives(w) PROVE PickupInv'
  BY <1>9, StepKeeps DEF NewerArrives, PickupInv, listVars
<1>10. CASE UNCHANGED vars
  BY <1>10, StepKeeps DEF vars, tabVars, PickupInv, listVars
<1> QED
  BY <1>1, <1>2, <1>3, <1>4, <1>5, <1>6, <1>7, <1>8, <1>9, <1>10 DEF Next, Step

-----------------------------------------------------------------------------
(* Counters: ids, instances and lost requests *)

\* An instance gives at most one id of its own, and the tab that opens is counted.
CountsOK ==
  /\ bound \in Bounds /\ nextId \in Nat /\ inst \in Nat /\ lost \in Nat
  /\ inst <= bound.mounts /\ nextId <= bound.ids + inst /\ lost <= bound.lost
  /\ tab = "opening" => inst < bound.mounts
  /\ tab = "open" => inst > 0

\* What a step does to the counters it moves.
LEMMA CountsKept ==
  ASSUME CountsOK, bound' = bound,
         \/ inst' = inst /\ nextId' = nextId
         \/ inst' = inst /\ nextId' \in Nat /\ nextId' <= bound.ids
         \/ inst' = inst + 1 /\ inst < bound.mounts /\ nextId' \in {nextId, nextId + 1},
         lost' = lost \/ (lost' = lost + 1 /\ lost < bound.lost),
         tab' = "opening" => inst' < bound.mounts,
         tab' = "open" => inst' > 0
  PROVE  CountsOK'
<1>1. bound.ids \in Nat /\ bound.mounts \in Nat /\ bound.lost \in Nat
  BY PickupConstantsOK DEF CountsOK
<1> QED
  BY <1>1 DEF CountsOK

\* Adding a mailbox gives one id, or none.
LEMMA AddedNext ==
  ASSUME NEW l, NEW a
  PROVE  Added(l, a).next \in {nextId, nextId + 1}
BY DEF Added

\* Ids are given one at a time, and no more of anything than the bounds allow.
LEMMA CountsStep ==
  PageOK /\ CountsOK /\ [Next]_vars => CountsOK' /\ nextId' \in {nextId, nextId + 1}
<1> SUFFICES ASSUME PageOK, CountsOK, [Next]_vars
             PROVE  CountsOK' /\ nextId' \in {nextId, nextId + 1}
  OBVIOUS
<1>1. bound' = bound
  BY DEF Next, vars
<1>2. /\ nextId \in Nat /\ inst \in Nat /\ bound.ids \in Nat /\ bound.mounts \in Nat
      /\ (tab = "opening" => inst < bound.mounts) /\ (tab = "open" => inst > 0)
  BY PickupConstantsOK DEF CountsOK
<1>3. UNCHANGED <<tab, inst, nextId, lost>> => CountsOK' /\ nextId' = nextId
  BY <1>1, <1>2, CountsKept
<1>4. ASSUME NEW a \in Addr, PickUp(a) PROVE CountsOK' /\ nextId' \in {nextId, nextId + 1}
  <2>1. UNCHANGED <<inst, lost>> /\ nextId < bound.ids
    BY <1>4 DEF PickUp, instVars, checkVars
  <2>2. nextId' \in {nextId, nextId + 1}
    BY <1>4 DEF PickUp, PageOK, HandOver, HandOverToDead
  <2>3. /\ tab' = IF tab = "closed" THEN "opening" ELSE tab
        /\ tab = "closed" => inst < bound.mounts
    BY <1>4 DEF PickUp
  <2>4. nextId' \in Nat /\ nextId' <= bound.ids
    BY <1>2, <2>1, <2>2
  <2> QED
    BY <1>1, <1>2, <2>1, <2>2, <2>3, <2>4, CountsKept
<1>5. CASE OpenTab
  <2>1. inst < bound.mounts /\ tab' = "opening" /\ UNCHANGED <<inst, nextId, lost>>
    BY <1>5 DEF OpenTab, instVars, checkVars
  <2> QED
    BY <1>1, <2>1, CountsKept
<1>6. CASE Mount
  <2>1. tab = "opening" /\ tab' = "open" /\ inst' = inst + 1 /\ lost' = lost
    BY <1>6 DEF Mount, checkVars
  <2>2. nextId' \in {nextId, nextId + 1}
    BY <1>6 DEF Mount, Restore, HandOver
  <2> QED
    BY <1>1, <1>2, <2>1, <2>2, CountsKept
<1>7. CASE CloseTab \/ Crash \/ Retry \/ Reload
  <2>1. tab' \in {"closed", "crashed"} /\ UNCHANGED <<inst, nextId, lost>>
    BY <1>7 DEF CloseTab, Crash, Unmount, Retry, Reload, instVars, checkVars
  <2> QED
    BY <1>1, <2>1, CountsKept
<1>8. CASE \/ ResetFlag \/ Expire \/ AccountsLoaded \/ AskRandom
           \/ CloseModal \/ ConfigCreated
  <2>1. UNCHANGED <<tab, inst, nextId, lost>>
    BY <1>8 DEF ResetFlag, Expire, AccountsLoaded, AskRandom, CloseModal,
      ConfigCreated, Start, pageVars, instVars, checkVars
  <2> QED
    BY <1>3, <2>1
<1>9. ASSUME NEW a \in Addr,
             \/ \E r \in random : RandomAnswered(r, a)
             \/ \E fromAccount \in BOOLEAN : AddMailbox(a, fromAccount)
      PROVE  CountsOK' /\ nextId' \in {nextId, nextId + 1}
  <2>1. UNCHANGED <<tab, inst, lost>> /\ nextId' <= bound.ids
    BY <1>9 DEF RandomAnswered, AddMailbox, pageVars, instVars, checkVars
  <2>2. \E l : nextId' = Added(l, a).next
    BY <1>9 DEF RandomAnswered, AddMailbox
  <2>3. nextId' \in {nextId, nextId + 1}
    BY <2>2, AddedNext
  <2> QED
    BY <1>1, <1>2, <2>1, <2>3, CountsKept
<1>10. ASSUME NEW a \in Addr, MailArrives(a) \/ \E i \in Inst : TimeoutPasses(i, a)
       PROVE  CountsOK' /\ nextId' = nextId
  BY <1>3, <1>10 DEF MailArrives, TimeoutPasses, pageVars, instVars, checkVars
<1>11. ASSUME NEW m \in list, Select(m) \/ Stop(m) \/ Remove(m) \/ PressStart(m)
       PROVE  CountsOK' /\ nextId' = nextId
  BY <1>3, <1>11 DEF Select, Stop, Remove, PressStart, Start, pageVars, instVars, checkVars
<1>12. ASSUME NEW s \in DOMAIN call,
              ConfigAnswered(s) \/ Check(s) \/ Answered(s) \/ CheckFails(s)
       PROVE  CountsOK' /\ nextId' = nextId
  <2>1. UNCHANGED <<tab, inst, nextId>>
    BY <1>12 DEF ConfigAnswered, Check, Answered, CheckFails, pageVars, instVars
  <2>2. lost' = lost \/ (lost' = lost + 1 /\ lost < bound.lost)
    BY <1>12 DEF ConfigAnswered, Check, Answered, CheckFails
  <2> QED
    BY <1>1, <1>2, <2>1, <2>2, CountsKept
<1>13. ASSUME \/ \E r \in random : RandomFails(r)
              \/ \E w \in arrived : NewerArrives(w)
       PROVE  CountsOK' /\ nextId' = nextId
  BY <1>3, <1>13 DEF RandomFails, NewerArrives, pageVars, instVars, checkVars
<1>14. CASE UNCHANGED vars
  BY <1>3, <1>14 DEF vars, tabVars, pageVars, instVars, checkVars
<1> QED
  BY <1>4, <1>5, <1>6, <1>7, <1>8, <1>9, <1>10, <1>11, <1>12, <1>13, <1>14 DEF Next, Step

-----------------------------------------------------------------------------
(* The selection *)

SelectedOK ==
  /\ selected \in Given \cup {0} /\ skip \in BOOLEAN
  /\ loading \in {"loading", "loaded", "failed"}

\* The mailbox that is selected, or was, has been given its id.
LEMMA SelectedKept ==
  ASSUME SelectedOK, Given \subseteq Given',
         \/ UNCHANGED <<selected, skip>>
         \/ \E l, sel, sk, sv : /\ sel \in Given' \cup {0, selected} /\ sk \in {skip, TRUE, FALSE}
                               /\ Becomes(l, sel, sk, sv),
         loading' \in {loading, "loading", "loaded", "failed"}
  PROVE  SelectedOK'
<1>1. selected' \in Given' \cup {0, selected} /\ skip' \in {skip, TRUE, FALSE}
  BY DEF Becomes
<1> QED
  BY <1>1 DEF SelectedOK

\* Whatever is selected, restored or handed over.
LEMMA SelectedStep ==
  /\ PageOK /\ PickupInv /\ SelectedOK /\ Given \subseteq Given' /\ [Next]_vars
  => SelectedOK'
<1> SUFFICES ASSUME PageOK, PickupInv, SelectedOK, Given \subseteq Given', [Next]_vars
             PROVE  SelectedOK'
  OBVIOUS
<1>1. UNCHANGED <<selected, skip>> /\ loading' \in {loading, "loaded", "failed"} => SelectedOK'
  BY SelectedKept
<1>2. ASSUME NEW l, Relist(l), loading' = loading PROVE SelectedOK'
  BY <1>2, SelectedKept DEF Relist
<1>3. ASSUME NEW a \in Addr, HandOver(a), loading' \in {loading, "loading"} PROVE SelectedOK'
  <2>1. nextId + 1 \in Given'
    BY <1>3 DEF HandOver, Given, PickupInv
  <2> QED
    BY <1>3, <2>1, SelectedKept DEF HandOver
<1>4. ASSUME NEW a \in Addr, PickUp(a) PROVE SelectedOK'
  <2>1. loading' = loading
    BY <1>4 DEF PickUp, instVars
  <2>2. HandOver(a) \/ UNCHANGED <<selected, skip>>
    BY <1>4 DEF PickUp, PageOK, HandOverToDead, listVars
  <2> QED
    BY <1>1, <1>3, <2>1, <2>2
<1>5. CASE Mount
  <2>1. loading' = "loading"
    BY <1>5 DEF Mount
  <2>2. CASE pending # None /\ HandOver(pending)
    BY <1>3, <2>1, <2>2 DEF PageOK
  <2>3. CASE Restore
    <3>1. saved # None => saved.id \in Given
      BY DEF PickupInv, GoodSave
    <3>2. \E l, sel, sk, sv : /\ sel \in Given \cup {0} /\ sk \in {TRUE, FALSE}
                             /\ Becomes(l, sel, sk, sv)
      BY <2>3, <3>1 DEF Restore
    <3> QED
      BY <2>1, <3>2, SelectedKept
  <2> QED
    BY <1>5, <2>2, <2>3 DEF Mount
<1>6. CASE CloseTab \/ Crash \/ Reload
  <2>1. selected' = 0 /\ skip' = FALSE /\ loading' = loading
    BY <1>6 DEF CloseTab, Crash, Unmount, Reload
  <2> QED
    BY <2>1 DEF SelectedOK
<1>7. CASE \/ OpenTab \/ Retry \/ ResetFlag \/ Expire \/ AccountsLoaded \/ AskRandom
           \/ CloseModal
  <2>1. UNCHANGED <<selected, skip>> /\ loading' \in {loading, "loaded", "failed"}
    BY <1>7 DEF OpenTab, Retry, ResetFlag, Expire, AccountsLoaded, AskRandom,
      CloseModal, listVars, instVars
  <2> QED
    BY <1>1, <2>1
<1>8. ASSUME NEW m, Start(m) PROVE SelectedOK'
  BY <1>1, <1>2, <1>8 DEF Start, Begins, listVars
<1>9. ASSUME NEW a \in Addr, NEW fromAccount \in BOOLEAN, AddMailbox(a, fromAccount)
      PROVE  SelectedOK'
  <2> DEFINE x == Added(list, a)
  <2>1. x.id \in 1..x.next /\ nextId' = x.next
    BY <1>9, AddedGood DEF AddMailbox, PickupInv
  <2>2. x.id \in Given'
    BY <2>1 DEF Given
  <2>3. \/ Becomes(x.list, x.id, TRUE, SavedAs(x, a))
        \/ Becomes(x.list, selected, skip, SavedAs(x, a))
    BY <1>9 DEF AddMailbox
  <2>4. loading' = loading
    BY <1>9 DEF AddMailbox, instVars
  <2> HIDE DEF x
  <2> QED
    BY <2>2, <2>3, <2>4, SelectedKept
<1>10. ASSUME NEW r \in random, NEW a \in Addr, RandomAnswered(r, a) PROVE SelectedOK'
  <2>1. \/ UNCHANGED <<selected, skip>>
        \/ \E l, sv : Becomes(l, selected, skip, sv)
    BY <1>10 DEF RandomAnswered
  <2>2. loading' = loading
    BY <1>10 DEF RandomAnswered, instVars
  <2> QED
    BY <2>1, <2>2, SelectedKept
<1>11. ASSUME NEW a \in Addr, MailArrives(a) \/ \E i \in Inst : TimeoutPasses(i, a)
       PROVE  SelectedOK'
  BY <1>1, <1>11 DEF MailArrives, TimeoutPasses, listVars, instVars
<1>12. ASSUME NEW m \in list, Select(m) \/ Stop(m) \/ Remove(m) PROVE SelectedOK'
  <2>1. m.id \in Given /\ loading' = loading
    BY <1>12 DEF PickupInv, GoodList, Boxes, Select, Stop, Remove, instVars
  <2>2. \E l, sel, sv : sel \in {m.id, selected, 0} /\ Becomes(l, sel, skip, sv)
    <3>1. CASE Select(m)
      BY <3>1 DEF Select
    <3>2. CASE Stop(m)
      BY <3>2 DEF Stop, Relist
    <3>3. CASE Remove(m)
      <4>1. CASE selected # m.id
        <5>1. \E sv : Becomes(list \ {m}, selected, skip, sv)
          BY <3>3, <4>1 DEF Remove
        <5> QED
          BY <5>1
      <4>2. CASE selected = m.id /\ list \ {m} = {}
        <5>1. Becomes(list \ {m}, 0, skip, None)
          BY <3>3, <4>2 DEF Remove
        <5> QED
          BY <5>1
      <4>3. CASE selected = m.id /\ list \ {m} # {}
        <5>1. \E sv : Becomes(list \ {m}, 0, skip, sv)
          BY <3>3, <4>3 DEF Remove
        <5> QED
          BY <5>1
      <4> QED
        BY <4>1, <4>2, <4>3
    <3> QED
      BY <1>12, <3>1, <3>2, <3>3
  <2> QED
    BY <2>1, <2>2, SelectedKept
<1>13. ASSUME NEW s \in DOMAIN call,
              ConfigAnswered(s) \/ Check(s) \/ Answered(s) \/ CheckFails(s)
       PROVE  SelectedOK'
  <2>1. loading' = loading
    BY <1>13 DEF ConfigAnswered, Check, Answered, CheckFails, instVars
  <2>2. UNCHANGED <<selected, skip>> \/ \E l : Relist(l)
    <3>1. CASE ConfigAnswered(s)
      BY <3>1 DEF ConfigAnswered, Begins, listVars
    <3>2. CASE Answered(s)
      BY <3>2 DEF Answered, listVars
    <3>3. CASE Check(s) \/ CheckFails(s)
      BY <3>3 DEF Check, CheckFails, listVars
    <3> QED
      BY <1>13, <3>1, <3>2, <3>3
  <2> QED
    BY <1>1, <1>2, <2>1, <2>2
<1>14. ASSUME \/ \E r \in random : RandomFails(r)
              \/ \E w \in arrived : NewerArrives(w)
       PROVE  SelectedOK'
  BY <1>1, <1>14 DEF RandomFails, NewerArrives, listVars, instVars
<1>15. CASE UNCHANGED vars
  BY <1>1, <1>15 DEF vars, tabVars, listVars, instVars
<1> QED
  BY <1>4, <1>5, <1>6, <1>7, <1>8, <1>9, <1>10, <1>11, <1>12, <1>13, <1>14, <1>15
     DEF Next, Step, ConfigCreated, PressStart

-----------------------------------------------------------------------------
(* Requests and timers *)

At == {"idle", "config", "done"} \cup Checking
Calls(I) ==
  {c \in [at : At, inst : 0..MaxMounts, id : I \cup {0},
          addr : Addr \cup {None}, knows : I \cup {0}, searches : Accounts \cup {None}] :
     c.at # "idle" => c.inst \in Inst /\ c.addr \in Addr}
Refs == [Inst -> [Addr -> {"none", "on", "old"}]]

ChecksOK ==
  /\ ref \in Refs /\ call \in [1..MaxStarts -> Calls(Given)]
  /\ known \in [Addr -> Given \cup {0}]
  /\ arrived \subseteq Mail
  /\ modal \in Addr \cup {None} /\ (modal # None => inst # 0)
  /\ random \subseteq [inst : Inst, list : SUBSET Boxes(Given)]

\* A listening that begins, passes its timeout or stops, of any instance.
LEMMA RefSet ==
  ASSUME ref \in Refs, NEW i, NEW a, NEW v, v \in {"none", "on", "old"}
  PROVE  [ref EXCEPT ![i][a] = v] \in Refs
<1> DEFINE new == [ref EXCEPT ![i][a] = v]
<1>1. new = [j \in Inst |-> IF j = i THEN [ref[j] EXCEPT ![a] = v] ELSE ref[j]]
  BY DEF Refs
<1>2. ASSUME NEW j \in Inst PROVE [ref[j] EXCEPT ![a] = v] \in [Addr -> {"none", "on", "old"}]
  BY DEF Refs
<1>3. ASSUME NEW j \in Inst PROVE ref[j] \in [Addr -> {"none", "on", "old"}]
  BY DEF Refs
<1> HIDE DEF new
<1> QED
  BY <1>1, <1>2, <1>3 DEF Refs

\* A call that goes on.
LEMMA CallGoes ==
  ASSUME call \in [1..MaxStarts -> Calls(Given)], NEW s, NEW at \in At, Goes(s, at),
         call[s].at # "idle"
  PROVE  call' \in [1..MaxStarts -> Calls(Given)]
<1>1. call' = [t \in 1..MaxStarts |-> IF t = s THEN [call[t] EXCEPT !.at = at] ELSE call[t]]
  BY DEF Goes
<1>2. ASSUME NEW t \in 1..MaxStarts
      PROVE  /\ call[t] \in Calls(Given)
             /\ call[t].at # "idle" => [call[t] EXCEPT !.at = at] \in Calls(Given)
  BY DEF Calls
<1> QED
  BY <1>1, <1>2

\* What is asked for and checked later has been given its ids.
LEMMA ChecksKept ==
  ASSUME ChecksOK, Given \subseteq Given',
         ref' \in Refs, call' \in [1..MaxStarts -> Calls(Given)],
         known' \in [Addr -> Given \cup {0}],
         arrived' \subseteq Mail, inst' = inst \/ inst' # 0,
         modal' \in {modal, None} \/ (modal' \in Addr \cup {None} /\ inst # 0),
         random' \subseteq random \cup [inst : Inst, list : SUBSET Boxes(Given)]
  PROVE  ChecksOK'
<1>1. ASSUME NEW c \in Calls(Given) PROVE c \in Calls(Given')
  BY <1>1 DEF Calls
<1>2. call' \in [1..MaxStarts -> Calls(Given')]
  BY <1>1
<1>3. ASSUME NEW m \in Boxes(Given) PROVE m \in Boxes(Given')
  BY <1>3 DEF Boxes
<1>4. random' \subseteq [inst : Inst, list : SUBSET Boxes(Given)]
  BY DEF ChecksOK
<1>5. random' \subseteq [inst : Inst, list : SUBSET Boxes(Given')]
  BY <1>3, <1>4
<1>6. known' \in [Addr -> Given' \cup {0}]
  OBVIOUS
<1>7. Calls(Given)' = Calls(Given') /\ Boxes(Given)' = Boxes(Given')
  BY DEF Calls, Boxes
<1> QED
  BY <1>2, <1>5, <1>6, <1>7 DEF ChecksOK

\* The id under which a list has an address.
LEMMA IdOfGiven ==
  ASSUME NEW I, NEW l, l \subseteq Boxes(I), NEW a
  PROVE  IdOf(l, a) \in I \cup {0}
<1>1. CASE a \in Addresses(l)
  <2> DEFINE c == CHOOSE m \in l : m.addr = a
  <2>1. c \in l
    BY <1>1 DEF Addresses
  <2>2. IdOf(l, a) = c.id
    BY <1>1 DEF IdOf
  <2> HIDE DEF c
  <2> QED
    BY <2>1, <2>2 DEF Boxes
<1>2. CASE a \notin Addresses(l)
  BY <1>2 DEF IdOf
<1> QED
  BY <1>1, <1>2

\* The listening itself.
LEMMA BeginsChecks ==
  ASSUME ref \in Refs, arrived \subseteq Mail, NEW i, NEW m, Begins(i, m)
  PROVE  ref' \in Refs /\ arrived' \subseteq Mail
<1>1. ref' = [ref EXCEPT ![i][m.addr] = "on"] /\ arrived' \subseteq arrived
  BY DEF Begins
<1> QED
  BY <1>1, RefSet

\* A mailbox of the list that is started.
LEMMA StartChecks ==
  ASSUME ChecksOK, PickupInv, CountsOK, Given \subseteq Given', NEW m \in list, Start(m),
         modal' \in {modal, None}, inst # 0
  PROVE  ChecksOK'
<1>1. m \in Boxes(Given)
  BY DEF PickupInv, GoodList
<1>2. m.id \in Given /\ m.addr \in Addr
  BY <1>1 DEF Boxes
<1>3. ref' \in Refs /\ arrived' \subseteq Mail
  <2>1. CASE Begins(inst, m)
    BY <2>1, BeginsChecks DEF ChecksOK
  <2>2. CASE UNCHANGED <<ref, arrived>>
    BY <2>2 DEF ChecksOK
  <2> QED
    BY <2>1, <2>2 DEF Start
<1>4. PICK s \in DOMAIN call : \E at \in {"config", "timer"} :
        call' = [call EXCEPT ![s] = [at |-> at, inst |-> inst, id |-> m.id, addr |-> m.addr,
                                     knows |-> known[m.addr],
                                     searches |-> AccountFor(m.addr)]]
  BY DEF Start
<1>5. inst \in 0..MaxMounts /\ inst \in Inst
  BY PickupConstantsOK DEF CountsOK, Inst
<1> DEFINE k == AccountFor(m.addr)
<1>6. k \in Accounts \cup {None}
  BY <1>2, PickupConstantsOK DEF AccountFor
<1> HIDE DEF k
<1>7. \A at \in {"config", "timer"} :
        [at |-> at, inst |-> inst, id |-> m.id, addr |-> m.addr, knows |-> known[m.addr],
         searches |-> k] \in Calls(Given)
  BY <1>2, <1>5, <1>6 DEF Calls, ChecksOK, At, Checking
<1>8. call' \in [1..MaxStarts -> Calls(Given)]
  BY <1>4, <1>7 DEF ChecksOK, k
<1>9. UNCHANGED <<known, random, inst>>
  BY DEF Start
<1> QED
  BY <1>3, <1>8, <1>9, ChecksKept DEF ChecksOK

\* Requests and timers, of instances that are gone, too.
LEMMA ChecksStep ==
  /\ PickupInv /\ CountsOK /\ ChecksOK /\ Given \subseteq Given' /\ [Next]_vars
  => ChecksOK'
<1> SUFFICES ASSUME PickupInv, CountsOK, ChecksOK, Given \subseteq Given', [Next]_vars
             PROVE  ChecksOK'
  OBVIOUS
<1>1. /\ UNCHANGED <<known, modal, random, ref, call, arrived>>
      /\ inst' = inst \/ inst' # 0
      => ChecksOK'
  BY ChecksKept DEF ChecksOK
<1>2. CASE \/ OpenTab \/ Mount \/ Retry \/ ResetFlag \/ Expire
  <2>1. UNCHANGED <<known, modal, random, ref, call, arrived>> /\ inst' \in {inst, inst + 1}
    BY <1>2 DEF OpenTab, Mount, Retry, ResetFlag, Expire, instVars, checkVars
  <2>2. inst' = inst \/ inst' # 0
    BY <2>1 DEF CountsOK
  <2> QED
    BY <1>1, <2>1, <2>2
<1>3. CASE CloseTab \/ Crash
  <2>1. /\ UNCHANGED <<inst, random, ref, call>> /\ modal' = None
        /\ known' = [a \in Addr |-> 0] /\ arrived' = {}
    BY <1>3 DEF CloseTab, Crash, Unmount
  <2> QED
    BY <2>1, ChecksKept DEF ChecksOK
<1>4. CASE Reload
  <2>1. /\ inst' = inst /\ modal' = None /\ known' = [a \in Addr |-> 0] /\ arrived' = {} /\ random' = {}
        /\ ref' = [i \in Inst |-> [a \in Addr |-> "none"]]
        /\ call' = [s \in DOMAIN call |->
              IF call[s].at = "idle" THEN call[s] ELSE [call[s] EXCEPT !.at = "done"]]
    BY <1>4 DEF Reload
  <2>2. ASSUME NEW s \in 1..MaxStarts
        PROVE  /\ call[s] \in Calls(Given)
               /\ call[s].at # "idle" => [call[s] EXCEPT !.at = "done"] \in Calls(Given)
    BY DEF ChecksOK, Calls, At
  <2>3. call' \in [1..MaxStarts -> Calls(Given)]
    BY <2>1, <2>2 DEF ChecksOK
  <2>4. ref' \in Refs
    BY <2>1 DEF Refs
  <2> QED
    BY <2>1, <2>3, <2>4, ChecksKept
<1>5. CASE AccountsLoaded
  <2>1. list \subseteq Boxes(Given)
    BY DEF PickupInv, GoodList
  <2>2. known' \in [Addr -> Given \cup {0}]
    BY <1>5, <2>1, IdOfGiven DEF AccountsLoaded, ChecksOK
  <2>3. UNCHANGED <<inst, modal, random, ref, call, arrived>>
    BY <1>5 DEF AccountsLoaded, checkVars
  <2> QED
    BY <2>2, <2>3, ChecksKept DEF ChecksOK
<1>6. CASE AskRandom
  <2>1. inst \in Inst /\ list \subseteq Boxes(Given)
    BY <1>6, PickupConstantsOK DEF AskRandom, Usable, CountsOK, Inst, PickupInv, GoodList
  <2>2. random' \subseteq random \cup [inst : Inst, list : SUBSET Boxes(Given)]
    BY <1>6, <2>1 DEF AskRandom
  <2>3. UNCHANGED <<inst, known, modal, ref, call, arrived>>
    BY <1>6 DEF AskRandom, instVars, checkVars
  <2> QED
    BY <2>2, <2>3, ChecksKept DEF ChecksOK
<1>7. ASSUME CloseModal \/ \E r \in random : RandomFails(r) PROVE ChecksOK'
  <2>1. random' \subseteq random /\ modal' \in {None, modal}
    BY <1>7 DEF RandomFails, CloseModal, instVars
  <2>2. UNCHANGED <<inst, known, ref, call, arrived>>
    BY <1>7 DEF RandomFails, CloseModal, instVars, checkVars
  <2> QED
    BY <2>1, <2>2, ChecksKept DEF ChecksOK
<1>8. CASE ConfigCreated
  BY <1>8, StartChecks DEF ConfigCreated, ChecksOK
<1>9. ASSUME NEW a \in Addr,
             \/ PickUp(a) \/ \E r \in random : RandomAnswered(r, a)
             \/ \E fromAccount \in BOOLEAN : AddMailbox(a, fromAccount)
      PROVE  ChecksOK'
  <2>1. UNCHANGED <<inst, known, modal, ref, call, arrived>> /\ random' \subseteq random
    BY <1>9 DEF PickUp, RandomAnswered, AddMailbox, instVars, checkVars
  <2> QED
    BY <2>1, ChecksKept DEF ChecksOK
<1>10. ASSUME \/ \E a \in Addr : MailArrives(a)
              \/ \E w \in arrived : NewerArrives(w)
       PROVE  ChecksOK'
  <2>1. UNCHANGED <<inst, known, modal, random, ref, call>>
    BY <1>10 DEF MailArrives, NewerArrives, instVars
  <2>2. ASSUME NEW a \in Addr, MailArrives(a) PROVE arrived' \subseteq Mail
    <3>1. Limit \in 0..Limit /\ 0 \in 0..Limit
      BY PickupConstantsOK
    <3> QED
      BY <2>2, <3>1 DEF MailArrives, ChecksOK, Mail
  <2>3. ASSUME NEW w \in arrived, NewerArrives(w) PROVE arrived' \subseteq Mail
    <3>1. w \in Mail /\ w.rank + 1 \in 0..Limit
      BY <2>3, PickupConstantsOK DEF NewerArrives, ChecksOK, Mail
    <3>2. [w EXCEPT !.rank = w.rank + 1] \in Mail
      BY <3>1 DEF Mail
    <3> QED
      BY <2>3, <3>2 DEF NewerArrives, ChecksOK
  <2>4. arrived' \subseteq Mail
    BY <1>10, <2>2, <2>3
  <2> QED
    BY <2>1, <2>4, ChecksKept DEF ChecksOK
<1>11. ASSUME NEW a \in Addr, NEW i \in Inst, TimeoutPasses(i, a) PROVE ChecksOK'
  <2>1. UNCHANGED <<inst, known, modal, random, call, arrived>>
    BY <1>11 DEF TimeoutPasses, instVars
  <2>2. ref' \in Refs
    BY <1>11, RefSet DEF TimeoutPasses, ChecksOK
  <2> QED
    BY <2>1, <2>2, ChecksKept DEF ChecksOK
<1>12. ASSUME NEW m \in list, Select(m) PROVE ChecksOK'
  BY <1>1, <1>12 DEF Select, instVars, checkVars
<1>13. ASSUME NEW m \in list, Stop(m) \/ Remove(m) PROVE ChecksOK'
  <2>1. UNCHANGED <<inst, known, modal, random, call, arrived>>
    BY <1>13 DEF Stop, Remove, instVars
  <2>2. m \in Boxes(Given)
    BY DEF PickupInv, GoodList
  <2>3. CASE Stop(m)
    <3>1. ref' \in Refs
      BY <2>3, RefSet DEF Stop, ChecksOK
    <3> QED
      BY <2>1, <3>1, ChecksKept DEF ChecksOK
  <2>4. CASE Remove(m)
    <3>1. inst \in Inst /\ m.addr \in Addr
      BY <2>2, <2>4, PickupConstantsOK DEF Remove, Usable, CountsOK, Inst, Boxes
    <3>2. ref[inst][m.addr] \in {"none", "on", "old"}
      BY <3>1 DEF ChecksOK, Refs
    <3>3. ref' \in Refs
      BY <2>4, <3>2, RefSet DEF Remove, ChecksOK
    <3> QED
      BY <2>1, <3>3, ChecksKept DEF ChecksOK
  <2> QED
    BY <1>13, <2>3, <2>4
<1>14. ASSUME NEW m \in list, PressStart(m) PROVE ChecksOK'
  <2>1. inst # 0
    BY <1>14 DEF PressStart, Usable, CountsOK
  <2> QED
    BY <1>14, <2>1, StartChecks DEF PressStart
<1>15. ASSUME NEW s \in DOMAIN call, ConfigAnswered(s) PROVE ChecksOK'
  <2>1. UNCHANGED <<inst, known, random>>
    BY <1>15 DEF ConfigAnswered
  <2>2. ref' \in Refs /\ arrived' \subseteq Mail
    <3>1. CASE Begins(call[s].inst, call[s])
      BY <3>1, BeginsChecks DEF ChecksOK
    <3>2. CASE UNCHANGED <<ref, arrived>>
      BY <3>2 DEF ChecksOK
    <3> QED
      BY <1>15, <3>1, <3>2 DEF ConfigAnswered
  <2>3. call[s] \in Calls(Given)
    BY DEF ChecksOK
  <2>4. modal' = modal \/ (modal' \in Addr \cup {None} /\ inst # 0)
    BY <1>15, <2>3 DEF ConfigAnswered, Current, CountsOK, Calls
  <2>5. call' \in [1..MaxStarts -> Calls(Given)]
    BY <1>15, CallGoes DEF ConfigAnswered, ChecksOK, At, Checking
  <2> QED
    BY <2>1, <2>2, <2>4, <2>5, ChecksKept DEF ChecksOK
<1>16. ASSUME NEW s \in DOMAIN call, Check(s) \/ CheckFails(s) PROVE ChecksOK'
  <2>1. UNCHANGED <<inst, known, modal, random, ref, arrived>>
    BY <1>16 DEF Check, CheckFails, instVars
  <2>2. call[s].at # "idle" /\ call[s] \in Calls(Given)
    BY <1>16 DEF Check, CheckFails, ChecksOK
  <2>3. ref[call[s].inst][call[s].addr] \in {"none", "on", "old"}
    BY <2>2 DEF ChecksOK, Refs, Calls
  <2>4. \E at \in At : Goes(s, at)
    BY <1>16, <2>3 DEF Check, CheckFails, At, Checking
  <2>5. call' \in [1..MaxStarts -> Calls(Given)]
    BY <2>2, <2>4, CallGoes DEF ChecksOK
  <2> QED
    BY <2>1, <2>5, ChecksKept DEF ChecksOK
<1>17. ASSUME NEW s \in DOMAIN call, Answered(s) PROVE ChecksOK'
  <2>1. UNCHANGED <<inst, known, modal, random, arrived>>
    BY <1>17 DEF Answered, instVars
  <2>2. call[s].at # "idle" /\ call[s] \in Calls(Given)
    BY <1>17 DEF Answered, ChecksOK
  <2>3. \E at \in At : Goes(s, at)
    BY <1>17 DEF Answered, At, Checking
  <2>4. call' \in [1..MaxStarts -> Calls(Given)]
    BY <2>2, <2>3, CallGoes DEF ChecksOK
  <2>5. PICK v \in {"none", ref[call[s].inst][call[s].addr]} :
          ref' = [ref EXCEPT ![call[s].inst][call[s].addr] = v]
    BY <1>17 DEF Answered
  <2>6. v \in {"none", "on", "old"} /\ ref \in Refs
    BY <2>2, <2>5 DEF ChecksOK, Refs, Calls
  <2>7. ref' \in Refs
    BY <2>5, <2>6, RefSet
  <2> QED
    BY <2>1, <2>4, <2>7, ChecksKept DEF ChecksOK
<1>18. CASE UNCHANGED vars
  BY <1>1, <1>18 DEF vars, tabVars, instVars, checkVars
<1> QED
  BY <1>2, <1>3, <1>4, <1>5, <1>6, <1>7, <1>8, <1>9, <1>10, <1>11, <1>12, <1>13, <1>14,
     <1>15, <1>16, <1>17, <1>18 DEF Next, Step

-----------------------------------------------------------------------------
(* At all times *)

PickupParts == PageOK /\ PickupInv /\ CountsOK /\ SelectedOK /\ ChecksOK

\* They hold together, whoever acts.
LEMMA PickupInvariant == Spec => []PickupParts
<1>1. Init => PickupParts
  <2> SUFFICES ASSUME Init PROVE PickupParts
    OBVIOUS
  <2>1. PageOK
    BY DEF Init, PageOK
  <2>2. PickupInv
    BY EmptyList DEF Init, PickupInv, GoodSave
  <2>3. CountsOK
    BY PickupConstantsOK DEF Init, CountsOK
  <2>4. SelectedOK
    BY DEF Init, SelectedOK
  <2>5. ChecksOK
    <3>1. [at |-> "idle", inst |-> 0, id |-> 0, addr |-> None, knows |-> 0,
             searches |-> None] \in Calls(Given)
      BY PickupConstantsOK DEF Calls, At
    <3> QED
      BY <3>1 DEF Init, ChecksOK, Refs
  <2> QED
    BY <2>1, <2>2, <2>3, <2>4, <2>5 DEF PickupParts
<1>2. PickupParts /\ [Next]_vars => PickupParts'
  <2> SUFFICES ASSUME PickupParts, [Next]_vars PROVE PickupParts'
    OBVIOUS
  <2>1. Given \subseteq Given'
    BY CountsStep DEF PickupParts, CountsOK, Given
  <2> QED
    BY <2>1, PageStep, PickupStep, CountsStep, SelectedStep, ChecksStep DEF PickupParts
<1> QED
  BY <1>1, <1>2, PTL DEF Spec

\* However old the list that a mailbox is added to, and whatever was restored.
THEOREM NoAddressTwice == Spec => []OneMailboxPerAddress
<1>1. PickupParts => OneMailboxPerAddress
  BY DEF PickupParts, PickupInv, GoodList, OneMailboxPerAddress
<1> QED
  BY <1>1, PickupInvariant, PTL

\* Whoever saved it last, the instance that is shown or one that is gone.
THEOREM SavedIsRestorable == Spec => []SavedListHasSelection
<1>1. PickupParts => SavedListHasSelection
  BY DEF PickupParts, PickupInv, GoodSave, SavedListHasSelection
<1> QED
  BY <1>1, PickupInvariant, PTL

\* The parts say what the type invariant says: no more ids and instances are given
\* than the bounds allow, and a live callback is that of the open tab.
LEMMA PartsAreTypes == PickupParts => TypeOK
<1> SUFFICES ASSUME PickupParts PROVE TypeOK
  OBVIOUS
<1> USE DEF PickupParts
<1>1. /\ Given \subseteq Ids /\ nextId \in Ids \cup {0}
      /\ inst \in 0..MaxMounts /\ lost \in 0..bound.lost
  <2>1. /\ bound.ids \in 0..MaxIds /\ bound.mounts \in 0..MaxMounts /\ bound.lost \in Nat
        /\ MaxIds \in Nat /\ MaxMounts \in Nat
    BY PickupConstantsOK DEF CountsOK
  <2>2. /\ nextId \in Nat /\ inst \in Nat /\ inst <= bound.mounts /\ nextId <= bound.ids + inst
        /\ lost \in Nat /\ lost <= bound.lost
    BY DEF CountsOK
  <2> QED
    BY <2>1, <2>2 DEF Given, Ids
<1>2. ASSUME NEW m \in Boxes(Given) PROVE m \in Mailbox
  BY <1>1, <1>2 DEF Boxes, Mailbox
<1>3. list \subseteq Mailbox /\ \A m, n \in list : m.id = n.id => m = n
  BY <1>2 DEF PickupInv, GoodList
<1>4. saved = None \/ saved \in Saved
  BY <1>1, <1>2 DEF PickupInv, GoodSave, Saved
<1>5. random \subseteq [inst : Inst, list : SUBSET Mailbox]
  BY <1>2 DEF ChecksOK
<1>6. /\ known \in [Addr -> Ids \cup {0}] /\ arrived \subseteq Mail /\ modal \in Addr \cup {None}
      /\ ref \in [Inst -> [Addr -> {"none", "on", "old"}]]
  BY <1>1 DEF ChecksOK, Refs
<1>7. call \in [1..MaxStarts -> [at : {"idle", "config", "done"} \cup Checking,
                                inst : 0..MaxMounts, id : Ids \cup {0},
                                addr : Addr \cup {None}, knows : Ids \cup {0},
                                searches : Accounts \cup {None}]]
  BY <1>1 DEF ChecksOK, Calls, At
<1>8. /\ selected \in Ids \cup {0} /\ skip \in BOOLEAN
      /\ loading \in {"loading", "loaded", "failed"}
  BY <1>1 DEF SelectedOK
<1>9. /\ tab \in {"closed", "opening", "open", "crashed"}
      /\ {pending, wanted, modal} \subseteq Addr \cup {None}
      /\ callback \in {"none", "live", "dead"} /\ flag \in BOOLEAN /\ resetting \in BOOLEAN
      /\ callback = "live" => tab = "open" /\ flag
  BY <1>6 DEF PageOK
<1>10. {flag, resetting, skip} \subseteq BOOLEAN
  BY <1>8, <1>9, Zenon
<1>11. bound \in Bounds
  BY DEF CountsOK
<1> QED
  BY <1>1, <1>3, <1>4, <1>5, <1>6, <1>7, <1>8, <1>9, <1>10, <1>11 DEF TypeOK

\* For any addresses, bounds and stale closures.
THEOREM TypeCorrect == Spec => []TypeOK
BY PartsAreTypes, PickupInvariant, PTL

-----------------------------------------------------------------------------
(* Listening *)

\* The step does not leave the address listened to without a check to come.
LeftPolled(i, a) ==
  (ref'[i][a] = "on" /\ (ref[i][a] = "on" => Polled(i, a)) /\ lost' = lost)
    => Polled(i, a)'

\* Another call that checks, and a listening that stops, leave what is polled polled.
LEMMA PolledKept ==
  ASSUME NEW i, NEW a, ref'[i][a] = "on" => ref[i][a] = "on", DOMAIN call' = DOMAIN call,
         \A s \in DOMAIN call :
           call[s].inst = i /\ call[s].addr = a /\ call[s].at \in {"timer", "sent"}
             => /\ call'[s].inst = i /\ call'[s].addr = a
                /\ call'[s].at \in {"timer", "sent"}
  PROVE  LeftPolled(i, a)
BY DEF LeftPolled, Polled

\* A listening that begins has its own check to come.
LEMMA BeginsPolled ==
  ASSUME ChecksOK, NEW i \in Inst, NEW a \in Addr, NEW j \in Inst, NEW m, m.addr \in Addr,
         Begins(j, m), NEW s \in DOMAIN call, DOMAIN call' = DOMAIN call,
         call[s].at \in {"idle", "config"},
         \A t \in DOMAIN call \ {s} : call'[t] = call[t],
         call'[s].inst = j /\ call'[s].addr = m.addr /\ call'[s].at = "timer"
  PROVE  LeftPolled(i, a)
<1>1. CASE i = j /\ a = m.addr
  BY <1>1 DEF LeftPolled, Polled
<1>2. CASE ~(i = j /\ a = m.addr)
  <2>1. ref'[i][a] = ref[i][a]
    BY <1>2 DEF Begins, ChecksOK, Refs
  <2>2. ASSUME NEW t \in DOMAIN call, call[t].at \in {"timer", "sent"} PROVE call'[t] = call[t]
    BY <2>2
  <2> QED
    BY <2>1, <2>2, PolledKept
<1> QED
  BY <1>1, <1>2

\* The button, or a new configuration.
LEMMA StartPolled ==
  ASSUME ChecksOK, PickupInv, NEW i \in Inst, NEW a \in Addr, NEW m \in list, Start(m), inst \in Inst
  PROVE  LeftPolled(i, a)
<1>1. m.addr \in Addr
  BY DEF PickupInv, GoodList, Boxes
<1> DEFINE new(at) == [at |-> at, inst |-> inst, id |-> m.id, addr |-> m.addr,
                       knows |-> known[m.addr], searches |-> AccountFor(m.addr)]
<1>2. PICK s \in DOMAIN call :
        /\ call[s].at = "idle"
        /\ \/ call' = [call EXCEPT ![s] = new("config")] /\ UNCHANGED ref
           \/ call' = [call EXCEPT ![s] = new("timer")] /\ Begins(inst, m)
  BY DEF Start
<1>3. /\ DOMAIN call' = DOMAIN call /\ \A t \in DOMAIN call \ {s} : call'[t] = call[t]
      /\ call'[s].inst = inst /\ call'[s].addr = m.addr
      /\ call'[s].at = "timer" \/ UNCHANGED ref
      /\ call'[s].at = "config" \/ Begins(inst, m)
      /\ call'[s].at \in {"config", "timer"}
  <2>1. \A at : new(at).inst = inst /\ new(at).addr = m.addr /\ new(at).at = at
    OBVIOUS
  <2> HIDE DEF new
  <2>2. \/ call'[s] = new("config") /\ UNCHANGED ref
        \/ call'[s] = new("timer") /\ Begins(inst, m)
    BY <1>2
  <2>3. DOMAIN call' = DOMAIN call /\ \A t \in DOMAIN call \ {s} : call'[t] = call[t]
    BY <1>2
  <2> QED
    BY <2>1, <2>2, <2>3
<1>4. CASE call'[s].at = "timer"
  BY <1>1, <1>2, <1>3, <1>4, BeginsPolled
<1>5. CASE call'[s].at = "config"
  <2>1. ASSUME NEW t \in DOMAIN call, call[t].at \in {"timer", "sent"} PROVE call'[t] = call[t]
    BY <1>2, <1>3, <2>1
  <2>2. UNCHANGED ref
    BY <1>3, <1>5
  <2> QED
    BY <1>3, <2>1, <2>2, PolledKept
<1> QED
  BY <1>3, <1>4, <1>5

\* Every step: a check that goes on is followed by another, one that finds nothing to
\* go on for belongs to an address that is not listened to, one that ends past the
\* timeout is none the address counts on, and what else ends a check is a lost request.
LEMMA PollingStep ==
  ASSUME PickupInv, CountsOK, ChecksOK, [Next]_vars, NEW i \in Inst, NEW a \in Addr
  PROVE  LeftPolled(i, a)
<1>1. UNCHANGED <<ref, call>> => LeftPolled(i, a)
  BY PolledKept
<1>2. CASE \/ OpenTab \/ Mount \/ CloseTab \/ Crash \/ Retry \/ ResetFlag \/ Expire
           \/ AccountsLoaded \/ AskRandom \/ CloseModal
  <2>1. CASE OpenTab \/ Mount \/ Retry \/ ResetFlag \/ Expire
    BY <1>1, <2>1 DEF OpenTab, Mount, Retry, ResetFlag, Expire, checkVars
  <2>2. CASE CloseTab \/ Crash
    BY <1>1, <2>2 DEF CloseTab, Crash, Unmount
  <2>3. CASE AccountsLoaded \/ AskRandom \/ CloseModal
    BY <1>1, <2>3 DEF AccountsLoaded, AskRandom, CloseModal, checkVars
  <2> QED
    BY <1>2, <2>1, <2>2, <2>3
<1>3. CASE Reload
  <2>1. ref'[i][a] = "none"
    BY <1>3 DEF Reload
  <2> QED
    BY <2>1 DEF LeftPolled
<1>4. ASSUME inst # 0 PROVE inst \in Inst
  BY <1>4, PickupConstantsOK DEF CountsOK, Inst
<1>5. CASE ConfigCreated
  BY <1>4, <1>5, StartPolled DEF ConfigCreated, ChecksOK
<1>6. ASSUME NEW b \in Addr,
             \/ PickUp(b) \/ MailArrives(b) \/ \E r \in random : RandomAnswered(r, b)
             \/ \E fromAccount \in BOOLEAN : AddMailbox(b, fromAccount)
      PROVE  LeftPolled(i, a)
  BY <1>1, <1>6 DEF PickUp, RandomAnswered, MailArrives, AddMailbox, checkVars
<1>7. ASSUME NEW b \in Addr, NEW j \in Inst, TimeoutPasses(j, b) PROVE LeftPolled(i, a)
  <2>1. ref'[i][a] = "on" => ref[i][a] = "on"
    BY <1>7 DEF TimeoutPasses, ChecksOK, Refs
  <2> QED
    BY <1>7, <2>1, PolledKept DEF TimeoutPasses
<1>8. ASSUME NEW m \in list, Select(m) PROVE LeftPolled(i, a)
  BY <1>1, <1>8 DEF Select, checkVars
<1>9. ASSUME NEW m \in list, Stop(m) \/ Remove(m) PROVE LeftPolled(i, a)
  <2>1. ref'[i][a] = "on" => ref[i][a] = "on"
    <3>1. \E v \in {"none", ref[inst][m.addr]} : ref' = [ref EXCEPT ![inst][m.addr] = v]
      BY <1>9 DEF Stop, Remove
    <3> QED
      BY <3>1 DEF ChecksOK, Refs
  <2>2. call' = call
    BY <1>9 DEF Stop, Remove
  <2> QED
    BY <2>1, <2>2, PolledKept
<1>10. ASSUME NEW m \in list, PressStart(m) PROVE LeftPolled(i, a)
  <2>1. inst # 0
    BY <1>10 DEF PressStart, Usable, CountsOK
  <2> QED
    BY <1>4, <1>10, <2>1, StartPolled DEF PressStart
<1>11. ASSUME NEW s \in DOMAIN call, NEW at, Goes(s, at)
       PROVE  /\ DOMAIN call' = DOMAIN call /\ \A t \in DOMAIN call \ {s} : call'[t] = call[t]
              /\ call'[s].inst = call[s].inst /\ call'[s].addr = call[s].addr
              /\ call'[s].at = at
  <2>1. call \in [1..MaxStarts -> Calls(Given)] /\ call[s] \in Calls(Given)
    BY DEF ChecksOK
  <2> QED
    BY <1>11, <2>1 DEF Goes, Calls
<1>12. ASSUME NEW s \in DOMAIN call, ConfigAnswered(s) PROVE LeftPolled(i, a)
  <2>1. call[s] \in Calls(Given) /\ call[s].at = "config"
    BY <1>12 DEF ConfigAnswered, ChecksOK
  <2>2. call[s].inst \in Inst /\ call[s].addr \in Addr
    BY <2>1 DEF Calls
  <2>3. CASE Begins(call[s].inst, call[s]) /\ Goes(s, "timer")
    BY <1>11, <2>1, <2>2, <2>3, BeginsPolled
  <2>4. CASE Goes(s, "done") /\ UNCHANGED ref
    <3>1. ASSUME NEW t \in DOMAIN call, call[t].at \in {"timer", "sent"}
          PROVE  call'[t] = call[t]
      BY <1>11, <2>1, <2>4, <3>1
    <3> QED
      BY <1>11, <2>4, <3>1, PolledKept
  <2> QED
    BY <1>12, <2>3, <2>4 DEF ConfigAnswered
<1>13. ASSUME NEW s \in DOMAIN call, Check(s) PROVE LeftPolled(i, a)
  <2> DEFINE r == ref[call[s].inst][call[s].addr]
             at == CASE r = "none" -> "done" [] r = "on" -> "sent" [] r = "old" -> "late"
  <2>1. UNCHANGED ref /\ Goes(s, at)
    BY <1>13 DEF Check
  <2>2. CASE call[s].inst = i /\ call[s].addr = a /\ ref[i][a] = "on"
    <3>1. call'[s].inst = i /\ call'[s].addr = a /\ call'[s].at = "sent"
      BY <1>11, <2>1, <2>2
    <3> QED
      BY <1>11, <2>1, <3>1 DEF LeftPolled, Polled
  <2>3. CASE ref[i][a] # "on"
    BY <2>1, <2>3 DEF LeftPolled
  <2>4. CASE ~(call[s].inst = i /\ call[s].addr = a)
    <3> HIDE DEF at
    <3> QED
      BY <1>11, <2>1, <2>4, PolledKept
  <2> QED
    BY <2>2, <2>3, <2>4
<1>14. ASSUME NEW s \in DOMAIN call, Answered(s) PROVE LeftPolled(i, a)
  <2>1. call[s].at \in {"sent", "late"} /\ call[s] \in Calls(Given)
    BY <1>14 DEF Answered, ChecksOK
  <2>2. \E v \in {"none", ref[call[s].inst][call[s].addr]} :
          ref' = [ref EXCEPT ![call[s].inst][call[s].addr] = v]
    BY <1>14 DEF Answered
  <2>3. ref'[i][a] = "on" => ref[i][a] = "on"
    BY <2>2 DEF ChecksOK, Refs
  <2>4. Goes(s, IF call[s].at = "sent" THEN "timer" ELSE "done")
    BY <1>14 DEF Answered
  <2>5. ASSUME NEW t \in DOMAIN call, call[t].at \in {"timer", "sent"}
        PROVE  /\ call'[t].inst = call[t].inst /\ call'[t].addr = call[t].addr
               /\ call'[t].at \in {"timer", "sent"}
    BY <1>11, <2>1, <2>4, <2>5
  <2> QED
    BY <1>11, <2>3, <2>4, <2>5, PolledKept
<1>15. ASSUME NEW s \in DOMAIN call, CheckFails(s) PROVE LeftPolled(i, a)
  <2>1. lost' # lost
    BY <1>15 DEF CheckFails, CountsOK
  <2> QED
    BY <2>1 DEF LeftPolled
<1>16. ASSUME \/ \E r \in random : RandomFails(r)
              \/ \E w \in arrived : NewerArrives(w)
       PROVE  LeftPolled(i, a)
  BY <1>1, <1>16 DEF RandomFails, NewerArrives, checkVars
<1>17. CASE UNCHANGED vars
  BY <1>1, <1>17 DEF vars, tabVars, checkVars
<1> QED
  BY <1>2, <1>3, <1>5, <1>6, <1>7, <1>8, <1>9, <1>10, <1>12, <1>13, <1>14, <1>15, <1>16, <1>17
     DEF Next, Step

\* However starts, stops and removals overlap with checks under way, and whatever the
\* instances are that they belong to.
THEOREM ListenedToIsPolled == Spec => ListeningIsPolled
<1>1. PickupParts /\ [Next]_vars
      => [\A i \in Inst, a \in Addr :
            (ref'[i][a] = "on" /\ (ref[i][a] = "on" => Polled(i, a)) /\ lost' = lost)
              => Polled(i, a)']_vars
  BY PollingStep DEF PickupParts, LeftPolled
<1> QED
  BY <1>1, PickupInvariant, PTL DEF Spec, ListeningIsPolled
=============================================================================
