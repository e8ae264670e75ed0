--------------------------- MODULE WebServersProofs ---------------------------
(***************************************************************************)
(* Proofs about WebServers, for any set of servers, any size of the buffer  *)
(* and any number of changes, navigations and lost connections.  A page     *)
(* that no event is due for has, of the list calls in flight, the newest    *)
(* one read or to be read in the present; and no call sent after the list   *)
(* of a submission has read less than the change of that submission.        *)
(***************************************************************************)
EXTENDS WebServers, SequenceTheorems, TLAPS

Submissions == {"none", "sent", "accepted", "refused", "refreshing"}

\* What the server has, and what is on its way to the page.
WorldOK ==
  /\ world \in Seq(SUBSET Servers) /\ Now \in 1..MaxChanges + 1
  /\ due \in 0..Now - 1 /\ buffer \in 0..Buffer /\ missed \in BOOLEAN
  /\ stream \in {"off", "connecting", "subscribed", "ending"}

\* The list calls: an older call is late when a newer one is, and there is one
\* first load and one submission at most.
CallsOK(calls, now) ==
  /\ calls \in Seq(ListCalls)
  /\ \A i \in 1..Len(calls) : calls[i].read <= now
  /\ \A i, j \in 1..Len(calls) : i < j /\ calls[j].late => calls[i].late
  /\ \A i, j \in 1..Len(calls) :
       calls[i].purpose = calls[j].purpose /\ calls[i].purpose # "refresh" => i = j

Calling(calls, purpose) == \E i \in 1..Len(calls) : calls[i].purpose = purpose

PageOK ==
  /\ path \in Paths /\ page = PageFromPath(path)
  /\ shown \in 0..Now /\ overtaken \in BOOLEAN /\ loading \in BOOLEAN

\* The detail and the buttons of its dialog.
DialogOK ==
  /\ selected \in Servers \cup {Nothing}
  /\ {confirmation, submitting} \subseteq BOOLEAN /\ submission \in Submissions
  /\ submission # "none" => submitting
  /\ submission = "refreshing" <=> Calling(lists, "submission")

\* A call that is not late has the change known, and no call sent after that of
\* a submission has read less than what the submission changed.
OwnReads(calls, change, seen) ==
  /\ \A i \in 1..Len(calls) :
       ~calls[i].late /\ calls[i].read # 0 => calls[i].read >= seen
  /\ \A i, j \in 1..Len(calls) :
       i <= j /\ calls[i].purpose = "submission" /\ calls[j].read # 0
         => calls[j].read >= change

OwnOK ==
  /\ own \in 0..Now /\ known \in 0..Now
  /\ OwnReads(lists, own, known)
  /\ shown < known => overtaken

\* No event is on its way, and none was lost.
Quiet == due = 0 /\ buffer = 0 /\ ~missed

Newest(calls) == calls[Len(calls)]
FreshOK ==
  Quiet /\ Listing =>
    IF lists # << >> /\ ~Newest(lists).late
    THEN Newest(lists).read \in {0, Now} ELSE shown = Now \/ overtaken

Inv == WorldOK /\ CallsOK(lists, Now) /\ PageOK /\ DialogOK /\ OwnOK /\ FreshOK

-----------------------------------------------------------------------------

\* A path belongs to one page; the path of a server to that of its detail.
LEMMA Pages ==
  /\ \A p \in Servers \cup {"/servers"} : PageFromPath(p) = "servers"
  /\ PageFromPath("/operations") = "operations" /\ PageFromPath("/") = "dashboard"
  /\ \A p \in Paths : PageFromPath(p) \in {"servers", "operations", "dashboard"}
  /\ Nothing \notin Servers
<1>1. \A p \in Servers : p \notin Places /\ p # Nothing
  BY ServersAssumption
<1>2. \A p \in Servers \cup {"/servers"} : PageFromPath(p) = "servers"
  BY <1>1 DEF PageFromPath, Places
<1>3. PageFromPath("/operations") = "operations" /\ PageFromPath("/") = "dashboard"
  BY <1>1 DEF PageFromPath, Places
<1>. QED
  BY <1>1, <1>2, <1>3 DEF Paths, Places

\* The calls of a page that was just opened.
FirstCalls(next) == IF next = "dashboard" THEN << >>
                    ELSE <<[purpose |-> "load", read |-> 0, late |-> FALSE]>>

\* They are well formed, unread and not late, and none belongs to a submission.
LEMMA FirstCallsOK ==
  ASSUME NEW next, NEW now \in Nat
  PROVE  /\ CallsOK(FirstCalls(next), now) /\ ~Calling(FirstCalls(next), "submission")
         /\ OwnReads(FirstCalls(next), 0, 0)
         /\ next # "dashboard" => /\ FirstCalls(next) # << >>
                                  /\ ~Newest(FirstCalls(next)).late
                                  /\ Newest(FirstCalls(next)).read = 0
<1>. DEFINE call == [purpose |-> "load", read |-> 0, late |-> FALSE]
<1>1. call \in ListCalls /\ call.read = 0 /\ ~call.late /\ call.purpose = "load"
  BY BoundsAssumption DEF ListCalls, Purposes
<1>. HIDE DEF call
<1>2. CASE next = "dashboard"
  BY <1>2 DEF FirstCalls, CallsOK, Calling, OwnReads
<1>3. CASE next # "dashboard"
  <2>1. FirstCalls(next) = <<call>>
    BY <1>3 DEF FirstCalls, call
  <2>2. <<call>> \in Seq(ListCalls) /\ Len(<<call>>) = 1 /\ <<call>>[1] = call
    BY <1>1
  <2>. QED
    BY <1>1, <1>3, <2>1, <2>2 DEF CallsOK, Calling, Newest, OwnReads
<1>. QED
  BY <1>2, <1>3

\* The first page has asked for its list.
LEMMA InitInv == Init => Inv
<1>. SUFFICES ASSUME Init PROVE Inv
  OBVIOUS
<1>1. PICK listed \in SUBSET Servers : world = <<listed>>
  BY DEF Init
<1>2. world \in Seq(SUBSET Servers) /\ Now = 1
  BY <1>1 DEF Now
<1>3. WorldOK
  <2>1. MaxChanges \in Nat /\ Buffer \in Nat
    BY BoundsAssumption, BufferAssumption
  <2>2. stream \in {"off", "connecting"} /\ due = 0 /\ buffer = 0 /\ missed = FALSE
    BY DEF Init
  <2>3. 1 \in 1..MaxChanges + 1 /\ 0 \in 0..1 - 1 /\ 0 \in 0..Buffer
    BY <2>1
  <2>. QED
    BY <1>2, <2>2, <2>3 DEF WorldOK
<1>4. lists = FirstCalls(page)
  BY DEF Init, FirstCalls
<1>5. CallsOK(lists, Now)
  BY <1>2, <1>4, FirstCallsOK
<1>6. PageOK
  <2>1. shown = 0 /\ loading = TRUE /\ overtaken = FALSE /\ path \in Paths
        /\ page = PageFromPath(path)
    BY DEF Init
  <2>2. 0 \in 0..1
    OBVIOUS
  <2>. QED
    BY <1>2, <2>1, <2>2 DEF PageOK
<1>7. DialogOK
  BY <1>2, <1>4, FirstCallsOK DEF Init, DialogOK, Submissions
<1>9. OwnOK
  <2>1. own = 0 /\ known = 0 /\ shown = 0 /\ 0 \in 0..Now
    BY <1>2 DEF Init
  <2>. QED
    BY <1>2, <1>4, <2>1, FirstCallsOK DEF OwnOK
<1>8. FreshOK
  <2>1. Listing => page # "dashboard"
    BY DEF Listing
  <2>. QED
    BY <1>2, <1>4, <2>1, FirstCallsOK DEF FreshOK
<1>. QED
  BY <1>3, <1>5, <1>6, <1>7, <1>8, <1>9 DEF Inv

-----------------------------------------------------------------------------
(* Sequences of calls *)

NewCall(purpose) == [purpose |-> purpose, read |-> 0, late |-> FALSE]

\* One more call: it is the newest, and not late.
LEMMA Asked ==
  ASSUME NEW calls, NEW now \in Nat, CallsOK(calls, now), NEW purpose \in Purposes,
         purpose # "refresh" => ~Calling(calls, purpose),
         NEW more, more = Append(calls, NewCall(purpose))
  PROVE  /\ CallsOK(more, now)
         /\ more # << >> /\ ~Newest(more).late /\ Newest(more).read = 0
         /\ \A p : Calling(more, p) <=> Calling(calls, p) \/ p = purpose
         /\ \A change, seen : OwnReads(calls, change, seen) => OwnReads(more, change, seen)
<1>. DEFINE call == NewCall(purpose)
            n == Len(calls)
<1>1. call \in ListCalls /\ call.read = 0 /\ ~call.late /\ call.purpose = purpose
  BY BoundsAssumption DEF ListCalls, NewCall
<1>2. more = Append(calls, call) /\ calls \in Seq(ListCalls) /\ n \in Nat
  BY DEF CallsOK
<1>. HIDE DEF call
<1>3. more \in Seq(ListCalls) /\ Len(more) = n + 1 /\ more[n + 1] = call
      /\ \A i \in 1..n : more[i] = calls[i]
  BY <1>1, <1>2
<1>4. \A i \in 1..Len(more) : i \in 1..n \/ i = n + 1
  BY <1>2, <1>3
<1>5. CallsOK(more, now)
  BY <1>1, <1>2, <1>3, <1>4 DEF CallsOK, Calling
<1>6. \A p : Calling(more, p) <=> Calling(calls, p) \/ p = purpose
  <2>1. n + 1 \in 1..Len(more) /\ \A i \in 1..n : i \in 1..Len(more)
    BY <1>2, <1>3
  <2>. QED
    BY <1>1, <1>2, <1>3, <1>4, <2>1 DEF Calling
<1>7. more # << >> /\ Newest(more) = call
  BY <1>2, <1>3 DEF Newest
<1>8. ASSUME NEW change, NEW seen, OwnReads(calls, change, seen)
      PROVE  OwnReads(more, change, seen)
  <2>1. \A i \in 1..Len(more) : ~more[i].late /\ more[i].read # 0 => more[i].read >= seen
    BY <1>1, <1>3, <1>4, <1>8 DEF OwnReads
  <2>2. ASSUME NEW i \in 1..Len(more), NEW j \in 1..Len(more), i <= j,
               more[i].purpose = "submission", more[j].read # 0
        PROVE  more[j].read >= change
    <3>1. j \in 1..n /\ i \in 1..n
      BY <1>1, <1>2, <1>3, <1>4, <2>2
    <3>. QED
      BY <1>3, <1>8, <2>2, <3>1 DEF OwnReads
  <2>. QED
    BY <2>1, <2>2 DEF OwnReads
<1>. QED
  BY <1>1, <1>5, <1>6, <1>7, <1>8

\* What remains of a sequence without its i-th element.
LEMMA Without ==
  ASSUME NEW S, NEW s \in Seq(S), NEW i \in 1..Len(s)
  PROVE  /\ RemoveAt(s, i) \in Seq(S) /\ Len(RemoveAt(s, i)) = Len(s) - 1
         /\ \A j \in 1..Len(s) - 1 : RemoveAt(s, i)[j] = IF j < i THEN s[j] ELSE s[j + 1]
<1>. DEFINE a == SubSeq(s, 1, i - 1)
            b == SubSeq(s, i + 1, Len(s))
<1>0. Len(s) \in Nat /\ i \in Nat /\ 1 <= i /\ i <= Len(s) /\ \A j \in 1..Len(s) : s[j] \in S
  OBVIOUS
<1>1. a \in Seq(S) /\ Len(a) = i - 1 /\ \A j \in 1..i - 1 : a[j] = s[j]
  <2>1. \A j \in 1..i - 1 : s[j] \in S
    BY <1>0
  <2>2. /\ a \in Seq(S) /\ Len(a) = IF 1 <= i - 1 THEN (i - 1) - 1 + 1 ELSE 0
        /\ \A j \in 1..(i - 1) - 1 + 1 : a[j] = s[1 + j - 1]
    BY <1>0, <2>1, SubSeqProperties
  <2>3. Len(a) = i - 1
    BY <1>0, <2>2
  <2>4. ASSUME NEW j \in 1..i - 1 PROVE a[j] = s[j]
    <3>1. j \in 1..(i - 1) - 1 + 1 /\ 1 + j - 1 = j
      BY <1>0
    <3>. QED
      BY <2>2, <3>1
  <2>. QED
    BY <2>2, <2>3, <2>4
<1>2. b \in Seq(S) /\ Len(b) = Len(s) - i /\ \A j \in 1..Len(s) - i : b[j] = s[i + j]
  <2>1. \A j \in i + 1..Len(s) : s[j] \in S
    BY <1>0
  <2>2. /\ b \in Seq(S) /\ Len(b) = IF i + 1 <= Len(s) THEN Len(s) - (i + 1) + 1 ELSE 0
        /\ \A j \in 1..Len(s) - (i + 1) + 1 : b[j] = s[(i + 1) + j - 1]
    BY <1>0, <2>1, SubSeqProperties
  <2>3. Len(b) = Len(s) - i
    BY <1>0, <2>2
  <2>4. ASSUME NEW j \in 1..Len(s) - i PROVE b[j] = s[i + j]
    <3>1. j \in 1..Len(s) - (i + 1) + 1 /\ (i + 1) + j - 1 = i + j
      BY <1>0
    <3>. QED
      BY <2>2, <3>1
  <2>. QED
    BY <2>2, <2>3, <2>4
<1>3. RemoveAt(s, i) = a \o b
  BY DEF RemoveAt
<1>. HIDE DEF a, b
<1>4. /\ a \o b \in Seq(S) /\ Len(a \o b) = Len(a) + Len(b)
      /\ \A j \in 1..Len(a) + Len(b) : (a \o b)[j] = IF j <= Len(a) THEN a[j] ELSE b[j - Len(a)]
  BY <1>1, <1>2, ConcatProperties
<1>5. ASSUME NEW j \in 1..Len(s) - 1
      PROVE  (a \o b)[j] = IF j < i THEN s[j] ELSE s[j + 1]
  <2>1. (a \o b)[j] = IF j <= i - 1 THEN a[j] ELSE b[j - (i - 1)]
    BY <1>0, <1>1, <1>2, <1>4
  <2>2. CASE j < i
    BY <1>0, <1>1, <2>1, <2>2
  <2>3. CASE ~(j < i)
    <3>1. j - (i - 1) \in 1..Len(s) - i /\ i + (j - (i - 1)) = j + 1 /\ ~(j <= i - 1)
      BY <1>0, <2>3
    <3>. QED
      BY <1>2, <2>1, <2>3, <3>1
  <2>. QED
    BY <2>2, <2>3
<1>. QED
  BY <1>0, <1>1, <1>2, <1>3, <1>4, <1>5

\* One call less; the others keep their order, and older ones may become late.
LEMMA Answered ==
  ASSUME NEW calls, NEW now \in Nat, CallsOK(calls, now), NEW i \in 1..Len(calls),
         NEW less, less \in Seq(ListCalls), Len(less) = Len(calls) - 1,
         \A j \in 1..Len(calls) - 1 :
           LET old == IF j < i THEN calls[j] ELSE calls[j + 1] IN
           /\ less[j].purpose = old.purpose /\ less[j].read = old.read
           /\ less[j].late = old.late \/ (j < i /\ less[j].late),
         \/ \A j \in 1..Len(calls) - 1 : j < i => less[j].late
         \/ \A j \in 1..Len(calls) - 1 : j < i => less[j].late = calls[j].late
  PROVE  /\ CallsOK(less, now)
         /\ \A p : Calling(less, p) => Calling(calls, p)
         /\ calls[i].purpose # "refresh" => ~Calling(less, calls[i].purpose)
         /\ \A p : p # calls[i].purpose => (Calling(less, p) <=> Calling(calls, p))
<1>. DEFINE n == Len(calls)
            From(j) == IF j < i THEN j ELSE j + 1
<1>1. n \in Nat /\ i \in 1..n /\ Len(less) = n - 1 /\ calls \in Seq(ListCalls)
  BY DEF CallsOK
<1>2. \A j \in 1..n - 1 : /\ From(j) \in 1..n /\ From(j) # i
                          /\ less[j].purpose = calls[From(j)].purpose
                          /\ less[j].read = calls[From(j)].read
                          /\ less[j].late = calls[From(j)].late \/ (j < i /\ less[j].late)
  BY <1>1
<1>3. \A j, k \in 1..n - 1 : (j < k => From(j) < From(k)) /\ (From(j) = From(k) => j = k)
  BY <1>1
<1>4. \A l \in 1..n : l = i \/ \E j \in 1..n - 1 : From(j) = l
  <2>. SUFFICES ASSUME NEW l \in 1..n, l # i PROVE \E j \in 1..n - 1 : From(j) = l
    OBVIOUS
  <2>1. CASE l < i
    BY <1>1, <2>1
  <2>2. CASE l > i
    <3>1. l - 1 \in 1..n - 1 /\ From(l - 1) = l
      BY <1>1, <2>2
    <3>. QED
      BY <3>1
  <2>. QED
    BY <1>1, <2>1, <2>2
<1>5. \A j \in 1..n - 1 : less[j] \in ListCalls
  BY <1>1
<1>6. \A j, k \in 1..n - 1 : j < k /\ less[k].late => less[j].late
  <2>. SUFFICES ASSUME NEW j \in 1..n - 1, NEW k \in 1..n - 1, j < k, less[k].late
                PROVE  less[j].late
    OBVIOUS
  <2>1. CASE k < i
    <3>1. j < i /\ j \in 1..n /\ k \in 1..n
      BY <1>1, <2>1
    <3>2. less[j].late \/ (less[j].late = calls[j].late /\ less[k].late = calls[k].late)
      BY <2>1, <3>1
    <3>3. calls[k].late => calls[j].late
      BY <3>1 DEF CallsOK
    <3>. QED
      BY <3>2, <3>3
  <2>2. CASE ~(k < i)
    <3>1. calls[From(k)].late /\ From(j) < From(k) /\ From(j) \in 1..n /\ From(k) \in 1..n
      BY <1>1, <1>2, <1>3, <2>2
    <3>2. calls[From(j)].late
      BY <3>1 DEF CallsOK
    <3>. QED
      BY <1>1, <1>2, <3>2
  <2>. QED
    BY <2>1, <2>2
<1>. HIDE DEF From
<1>7. CallsOK(less, now)
  <2>1. less \in Seq(ListCalls)
    OBVIOUS
  <2>2. \A j \in 1..n - 1 : less[j].read <= now
    BY <1>2 DEF CallsOK
  <2>3. ASSUME NEW j \in 1..n - 1, NEW k \in 1..n - 1,
               less[j].purpose = less[k].purpose, less[j].purpose # "refresh"
        PROVE  j = k
    <3>1. From(j) \in 1..n /\ From(k) \in 1..n /\ calls[From(j)].purpose = calls[From(k)].purpose
          /\ calls[From(j)].purpose # "refresh"
      BY <1>2, <2>3
    <3>2. From(j) = From(k)
      BY <3>1 DEF CallsOK
    <3>. QED
      BY <1>3, <3>2
  <2>4. 1..Len(less) = 1..n - 1
    BY <1>1
  <2>. HIDE DEF n
  <2>. QED
    BY <1>6, <2>1, <2>2, <2>3, <2>4 DEF CallsOK
<1>8. \A p : Calling(less, p) <=> \E j \in 1..n - 1 : calls[From(j)].purpose = p
  BY <1>1, <1>2 DEF Calling
<1>9. \A p : Calling(less, p) => Calling(calls, p)
  BY <1>2, <1>8 DEF Calling
<1>10. calls[i].purpose # "refresh" => ~Calling(less, calls[i].purpose)
  BY <1>1, <1>2, <1>8 DEF CallsOK
<1>11. \A p : p # calls[i].purpose => (Calling(less, p) <=> Calling(calls, p))
  <2>. SUFFICES ASSUME NEW p, p # calls[i].purpose, Calling(calls, p) PROVE Calling(less, p)
    BY <1>9
  <2>1. PICK l \in 1..n : calls[l].purpose = p
    BY DEF Calling
  <2>2. PICK j \in 1..n - 1 : From(j) = l
    BY <1>4, <2>1
  <2>. QED
    BY <1>8, <2>1, <2>2
<1>. QED
  BY <1>7, <1>9, <1>10, <1>11

\* The calls that remain have read what they had read.
LEMMA Kept ==
  ASSUME NEW calls, NEW now \in Nat, CallsOK(calls, now), NEW i \in 1..Len(calls),
         NEW less, Len(less) = Len(calls) - 1,
         \A j \in 1..Len(calls) - 1 :
           LET old == IF j < i THEN calls[j] ELSE calls[j + 1] IN
           /\ less[j].purpose = old.purpose /\ less[j].read = old.read
           /\ less[j].late = old.late \/ (j < i /\ less[j].late),
         NEW change, NEW seen, OwnReads(calls, change, seen)
  PROVE  OwnReads(less, change, seen)
<1>. DEFINE n == Len(calls)
            From(j) == IF j < i THEN j ELSE j + 1
<1>1. n \in Nat /\ i \in 1..n /\ Len(less) = n - 1
  BY DEF CallsOK
<1>2. \A j \in 1..n - 1 : /\ From(j) \in 1..n
                          /\ less[j].purpose = calls[From(j)].purpose
                          /\ less[j].read = calls[From(j)].read
                          /\ ~less[j].late => ~calls[From(j)].late
  BY <1>1
<1>3. \A j, k \in 1..n - 1 : j <= k => From(j) <= From(k)
  BY <1>1
<1>. HIDE DEF From
<1>4. 1..Len(less) = 1..n - 1
  BY <1>1
<1>. HIDE DEF n
<1>5. \A j \in 1..n - 1 : ~less[j].late /\ less[j].read # 0 => less[j].read >= seen
  BY <1>2 DEF OwnReads, n
<1>6. ASSUME NEW j \in 1..n - 1, NEW k \in 1..n - 1, j <= k,
             less[j].purpose = "submission", less[k].read # 0
      PROVE  less[k].read >= change
  <2>1. From(j) \in 1..n /\ From(k) \in 1..n /\ From(j) <= From(k)
    BY <1>2, <1>3, <1>6
  <2>2. calls[From(j)].purpose = "submission" /\ less[k].read = calls[From(k)].read
    BY <1>2, <1>6
  <2>. QED
    BY <1>6, <2>1, <2>2 DEF OwnReads, n
<1>. QED
  BY <1>4, <1>5, <1>6 DEF OwnReads

-----------------------------------------------------------------------------
(* Answers to list calls *)

\* What is listed now, and what a call has read, are sets of servers.
LEMMA Worlds ==
  ASSUME Inv
  PROVE  /\ Now \in Nat \ {0} /\ Listed \subseteq Servers
         /\ \A r \in 1..Now : world[r] \subseteq Servers
         /\ \A i \in 1..Len(lists) : lists[i].read \in 0..Now
         /\ lists \in Seq(ListCalls) /\ Len(lists) \in Nat
         /\ Nothing \notin Listed
<1>1. Now \in Nat \ {0} /\ \A r \in 1..Now : world[r] \in SUBSET Servers
  BY BoundsAssumption DEF Inv, WorldOK, Now
<1>2. Listed \subseteq Servers
  BY <1>1 DEF Inv, PageOK, Listed
<1>3. lists \in Seq(ListCalls)
  BY DEF Inv, CallsOK
<1>4. \A i \in 1..Len(lists) : lists[i].read \in Nat /\ lists[i].read <= Now
  <2>1. MaxChanges \in Nat
    BY BoundsAssumption
  <2>2. \A i \in 1..Len(lists) : lists[i] \in ListCalls /\ lists[i].read <= Now
    BY <1>3 DEF Inv, CallsOK
  <2>3. \A call \in ListCalls : call.read \in Nat
    BY <2>1 DEF ListCalls
  <2>. QED
    BY <2>2, <2>3
<1>. QED
  BY <1>1, <1>2, <1>3, <1>4, Pages

\* A list call reads the change that is present.
LEMMA ReadStep ==
  ASSUME Inv, NEW i \in 1..Len(lists), Read(i)
  PROVE  Inv'
<1>. DEFINE call == [lists[i] EXCEPT !.read = Now]
<1>1. lists[i].read = 0 /\ lists' = [lists EXCEPT ![i] = call] /\ lists[i] \in ListCalls
      /\ UNCHANGED <<world, due, streamVars, placeVars, shown, loading, missed,
                     overtaken, dialogVars>>
  BY Worlds DEF Read
<1>2. Now \in 0..MaxChanges + 1
  BY BoundsAssumption DEF Inv, WorldOK
<1>3. call \in ListCalls /\ call.read = Now /\ call.purpose = lists[i].purpose
      /\ call.late = lists[i].late
  BY <1>1, <1>2 DEF ListCalls
<1>. HIDE DEF call
<1>4. lists' \in Seq(ListCalls) /\ Len(lists') = Len(lists)
      /\ \A j \in 1..Len(lists) : lists'[j] = IF j = i THEN call ELSE lists[j]
  BY <1>1, <1>3, Worlds
<1>5. \A j \in 1..Len(lists) : /\ lists'[j].purpose = lists[j].purpose
                               /\ lists'[j].late = lists[j].late
                               /\ lists'[j].read \in {lists[j].read, Now}
  BY <1>3, <1>4
<1>6. Now' = Now /\ Listed' = Listed
  BY <1>1 DEF Now, Listed
<1>7. CallsOK(lists', Now)
  <2>1. \A j \in 1..Len(lists) : lists'[j].read <= Now
    BY <1>5, Worlds
  <2>. QED
    BY <1>4, <1>5, <2>1 DEF Inv, CallsOK
<1>8. \A p : Calling(lists', p) <=> Calling(lists, p)
  BY <1>4, <1>5 DEF Calling
<1>9. WorldOK' /\ PageOK'
  BY <1>1, <1>6 DEF Inv, WorldOK, PageOK, streamVars, placeVars
<1>10. DialogOK'
  BY <1>1, <1>6, <1>8 DEF Inv, DialogOK, dialogVars, placeVars, Calling
<1>12. OwnOK'
  <2>1. own \in 0..Now /\ known \in 0..Now /\ Now \in Nat
    BY Worlds DEF Inv, OwnOK
  <2>2. \A j \in 1..Len(lists) : lists'[j].read >= known
          \/ lists'[j].late \/ lists'[j].read = 0
    BY <1>5, <2>1 DEF Inv, OwnOK, OwnReads
  <2>3. \A j, k \in 1..Len(lists) :
          j <= k /\ lists'[j].purpose = "submission" /\ lists'[k].read # 0
            => lists'[k].read >= own
    BY <1>5, <2>1 DEF Inv, OwnOK, OwnReads
  <2>4. OwnReads(lists', own, known)
    BY <1>4, <2>2, <2>3 DEF OwnReads
  <2>5. OwnReads(lists, own, known)' = OwnReads(lists', own, known)
    BY <1>1 DEF OwnReads, dialogVars
  <2>. QED
    BY <1>1, <1>6, <2>4, <2>5 DEF Inv, OwnOK, dialogVars
<1>11. FreshOK'
  <2>1. Newest(lists').late = Newest(lists).late
        /\ Newest(lists').read \in {Newest(lists).read, Now} /\ lists' # << >> /\ lists # << >>
    BY <1>4, <1>5, Worlds DEF Newest
  <2>. QED
    BY <1>1, <1>6, <2>1
       DEF Inv, FreshOK, Quiet, Listing, Newest, streamVars, placeVars
<1>. QED
  BY <1>6, <1>7, <1>9, <1>10, <1>11, <1>12 DEF Inv

\* One call fewer, and what becomes of the submission.
LEMMA Settled ==
  ASSUME Inv, NEW i \in 1..Len(lists), Ends(lists[i].purpose),
         Calling(lists', "submission") <=>
           Calling(lists, "submission") /\ lists[i].purpose # "submission"
  PROVE  /\ submitting' \in BOOLEAN /\ submission' \in Submissions
         /\ submission' # "none" => submitting'
         /\ submission' = "refreshing" <=> Calling(lists', "submission")
<1>1. submitting \in BOOLEAN /\ submission \in Submissions
      /\ (submission # "none" => submitting)
      /\ (submission = "refreshing" <=> Calling(lists, "submission"))
  BY DEF Inv, DialogOK
<1>2. CASE lists[i].purpose = "submission"
  <2>1. submission' = "none" /\ submitting' = FALSE
    BY <1>1, <1>2 DEF Ends
  <2>. QED
    BY <1>2, <2>1 DEF Submissions
<1>3. CASE lists[i].purpose # "submission"
  <2>1. submission' = submission /\ submitting' = submitting
    BY <1>1, <1>3 DEF Ends
  <2>. QED
    BY <1>1, <1>3, <2>1
<1>. QED
  BY <1>2, <1>3

\* The list that arrives is shown; the calls sent before it are late from now on.
LEMMA ArriveStep ==
  ASSUME Inv, NEW i \in 1..Len(lists), Arrive(i)
  PROVE  Inv'
<1>. DEFINE call == lists[i]
            items == world[call.read]
            n == Len(lists)
<1>1. call.read # 0 /\ lists' = Taken(i) /\ shown' = call.read
      /\ loading' = (loading /\ page = "servers" /\ call.purpose # "load")
      /\ overtaken' = call.late /\ selected' = Selects(call.purpose, items)
      /\ known' = (IF call.purpose = "submission" THEN own ELSE known)
      /\ Ends(call.purpose)
      /\ UNCHANGED <<world, due, streamVars, placeVars, missed, confirmation, own>>
  BY DEF Arrive
<1>2. n \in Nat /\ i \in 1..n /\ call \in ListCalls /\ call.read \in 1..Now /\ items \subseteq Servers
  BY <1>1, Worlds
<1>3. lists' = [j \in 1..n - 1 |-> IF j < i THEN [lists[j] EXCEPT !.late = TRUE] ELSE lists[j + 1]]
  BY <1>1 DEF Taken
<1>4. ASSUME NEW j \in 1..n - 1
      PROVE  LET old == IF j < i THEN lists[j] ELSE lists[j + 1] IN
             /\ lists'[j] \in ListCalls
             /\ lists'[j].purpose = old.purpose /\ lists'[j].read = old.read
             /\ lists'[j].late = old.late \/ (j < i /\ lists'[j].late)
             /\ j < i => lists'[j].late
  <2>1. j \in 1..n /\ j + 1 \in 1..n /\ lists[j] \in ListCalls /\ lists[j + 1] \in ListCalls
    BY <1>2, Worlds
  <2>2. CASE j < i
    <3>1. lists'[j] = [lists[j] EXCEPT !.late = TRUE]
      BY <1>3, <2>2
    <3>2. lists'[j] \in ListCalls /\ lists'[j].purpose = lists[j].purpose
          /\ lists'[j].read = lists[j].read /\ lists'[j].late
      BY <2>1, <3>1 DEF ListCalls
    <3>. QED
      BY <2>2, <3>2
  <2>3. CASE ~(j < i)
    <3>1. lists'[j] = lists[j + 1]
      BY <1>3, <2>3
    <3>. QED
      BY <2>1, <2>3, <3>1
  <2>. QED
    BY <2>2, <2>3
<1>5. lists' \in Seq(ListCalls) /\ Len(lists') = n - 1
  <2>1. n - 1 \in Nat /\ DOMAIN lists' = 1..n - 1
    BY <1>2, <1>3
  <2>2. lists' \in [1..n - 1 -> ListCalls]
    BY <1>3, <1>4
  <2>. HIDE DEF n
  <2>. QED
    BY <2>1, <2>2
<1>6. Now' = Now /\ Listed' = items /\ Now \in Nat
  BY <1>1, <1>2, Worlds DEF Now, Listed
<1>7. /\ CallsOK(lists', Now)
      /\ \A p : Calling(lists', p) => Calling(lists, p)
      /\ call.purpose # "refresh" => ~Calling(lists', call.purpose)
      /\ \A p : p # call.purpose => (Calling(lists', p) <=> Calling(lists, p))
  <2>. HIDE DEF n
  <2>1. CallsOK(lists, Now)
    BY DEF Inv
  <2>. QED
    BY <1>4, <1>5, <1>6, <2>1, Answered DEF n
<1>8. Calling(lists', "submission") <=> Calling(lists, "submission") /\ call.purpose # "submission"
  BY <1>7
<1>9. WorldOK'
  BY <1>1, <1>6 DEF Inv, WorldOK, streamVars
<1>10. PageOK'
  <2>1. call.read \in 0..Now /\ call.late \in BOOLEAN
    BY <1>2, <1>6 DEF ListCalls
  <2>2. loading' \in BOOLEAN
    BY <1>1
  <2>. QED
    BY <1>1, <1>6, <2>1, <2>2 DEF Inv, PageOK, placeVars
<1>11. DialogOK'
  <2>1. selected' \in Servers \cup {Nothing}
    BY <1>1, <1>2 DEF Inv, DialogOK, Selects
  <2>2. /\ submitting' \in BOOLEAN /\ submission' \in Submissions
        /\ submission' # "none" => submitting'
        /\ submission' = "refreshing" <=> Calling(lists', "submission")
    BY <1>1, <1>8, Settled
  <2>3. Calling(lists, "submission")' = Calling(lists', "submission")
    BY DEF Calling
  <2>. HIDE DEF items
  <2>. QED
    BY <1>1, <2>1, <2>2, <2>3 DEF Inv, DialogOK
<1>13. OwnOK'
  <2>1. own \in 0..Now /\ known \in 0..Now /\ OwnReads(lists, own, known)
    BY DEF Inv, OwnOK
  <2>2. OwnReads(lists', own, known)
    <3>. HIDE DEF n
    <3>1. CallsOK(lists, Now)
      BY DEF Inv
    <3>. QED
      BY <1>4, <1>5, <1>6, <2>1, <3>1, Kept DEF n
  <2>3. ASSUME call.purpose = "submission"
        PROVE  OwnReads(lists', own, own) /\ call.read >= own
    <3>1. \A j \in 1..n : i <= j /\ lists[j].read # 0 => lists[j].read >= own
      BY <1>2, <2>1, <2>3 DEF OwnReads
    <3>2. ASSUME NEW j \in 1..n - 1, ~lists'[j].late, lists'[j].read # 0
          PROVE  lists'[j].read >= own
      <4>1. ~(j < i) /\ lists'[j].read = lists[j + 1].read /\ j + 1 \in 1..n /\ i <= j + 1
        BY <1>2, <1>4, <3>2
      <4>. QED
        BY <3>1, <3>2, <4>1
    <3>3. 1..Len(lists') = 1..n - 1
      BY <1>5
    <3>. HIDE DEF n
    <3>4. OwnReads(lists', own, own)
      BY <2>2, <3>2, <3>3 DEF OwnReads
    <3>5. call.read >= own
      BY <1>1, <1>2, <3>1 DEF n
    <3>. QED
      BY <3>4, <3>5
  <2>4. ASSUME call.purpose # "submission", ~call.late
        PROVE  call.read >= known
    BY <1>1, <1>2, <2>1, <2>4 DEF OwnReads
  <2>5. OwnReads(lists, own, known)' = OwnReads(lists', own, known')
    BY <1>1 DEF OwnReads
  <2>6. CASE call.purpose = "submission"
    <3>1. known' = own /\ ~(shown' < known')
      BY <1>1, <1>2, <2>1, <2>3, <2>6
    <3>. QED
      BY <1>1, <1>6, <2>1, <2>3, <2>5, <2>6, <3>1 DEF OwnOK
  <2>7. CASE call.purpose # "submission"
    <3>1. known' = known /\ (shown' < known' => overtaken')
      <4>1. call.late \in BOOLEAN
        BY <1>2 DEF ListCalls
      <4>. QED
        BY <1>1, <1>2, <2>1, <2>4, <2>7, <4>1
    <3>. QED
      BY <1>1, <1>6, <2>1, <2>2, <2>5, <3>1 DEF OwnOK
  <2>. QED
    BY <2>6, <2>7
<1>12. FreshOK'
  <2>. SUFFICES ASSUME Quiet, Listing
                PROVE  IF lists' # << >> /\ ~Newest(lists').late
                       THEN Newest(lists').read \in {0, Now} ELSE shown' = Now \/ overtaken'
    BY <1>1, <1>6 DEF FreshOK, Quiet, Listing, Newest, streamVars, placeVars
  <2>1. CASE call.late
    <3>. SUFFICES ASSUME lists' # << >>, ~Newest(lists').late
                  PROVE  Newest(lists').read \in {0, Now}
      BY <1>1, <2>1
    <3>1. n - 1 \in 1..n - 1 /\ Newest(lists') = lists'[n - 1]
      BY <1>2, <1>5 DEF Newest
    <3>2. ~(n - 1 < i) /\ lists'[n - 1].read = lists[n].read /\ lists'[n - 1].late = lists[n].late
      BY <1>2, <1>4, <3>1
    <3>3. lists # << >> /\ Newest(lists) = lists[n] /\ ~lists[n].late
      BY <1>2, <3>1, <3>2 DEF Newest
    <3>. QED
      BY <3>1, <3>2, <3>3 DEF Inv, FreshOK
  <2>2. CASE ~call.late /\ i = n
    <3>1. call.read = Now
      BY <1>1, <1>2, <2>2 DEF Inv, FreshOK, Newest
    <3>2. lists' # << >> => Newest(lists').late
      <4>1. lists' # << >> => n - 1 \in 1..n - 1
        BY <1>2, <1>5
      <4>. QED
        BY <1>2, <1>4, <1>5, <2>2, <4>1 DEF Newest
    <3>. QED
      BY <1>1, <3>1, <3>2
  <2>3. CASE ~call.late /\ i # n
    <3>1. n - 1 \in 1..n - 1 /\ ~(n - 1 < i) /\ n \in 1..n /\ i < n
      BY <1>2, <2>3
    <3>2. lists'[n - 1].read = lists[n].read /\ lists'[n - 1].late = lists[n].late
      BY <1>2, <1>4, <3>1
    <3>3. ~lists[n].late /\ lists # << >>
      BY <1>2, <2>3, <3>1 DEF Inv, CallsOK
    <3>4. lists[n].read \in {0, Now}
      BY <3>3 DEF Inv, FreshOK, Newest
    <3>5. lists' # << >> /\ Newest(lists') = lists'[n - 1]
      BY <1>2, <1>5, <3>1 DEF Newest
    <3>. QED
      BY <3>2, <3>3, <3>4, <3>5
  <2>. QED
    BY <2>1, <2>2, <2>3
<1>. QED
  BY <1>6, <1>7, <1>9, <1>10, <1>11, <1>12, <1>13 DEF Inv

\* A list call that fails leaves what is shown, and ends the submission it belongs to.
LEMMA FailStep ==
  ASSUME Inv, NEW i \in 1..Len(lists), Fail(i)
  PROVE  Inv'
<1>. DEFINE call == lists[i]
            n == Len(lists)
<1>1. lists' = RemoveAt(lists, i) /\ missed' = TRUE
      /\ loading' = (loading /\ page = "servers" /\ call.purpose # "load") /\ Ends(call.purpose)
      /\ UNCHANGED <<world, due, streamVars, placeVars, shown, overtaken, selected,
                     confirmation, own, known>>
  BY DEF Fail
<1>2. lists' \in Seq(ListCalls) /\ Len(lists') = n - 1
      /\ \A j \in 1..n - 1 : lists'[j] = IF j < i THEN lists[j] ELSE lists[j + 1]
  BY <1>1, Worlds, Without
<1>3. Now' = Now /\ Listed' = Listed /\ Now \in Nat
  BY <1>1, Worlds DEF Now, Listed
<1>4. /\ CallsOK(lists', Now)
      /\ call.purpose # "refresh" => ~Calling(lists', call.purpose)
      /\ \A p : p # call.purpose => (Calling(lists', p) <=> Calling(lists, p))
  <2>1. CallsOK(lists, Now)
    BY DEF Inv
  <2>. QED
    BY <1>2, <1>3, <2>1, Answered
<1>5. WorldOK'
  BY <1>1, <1>3 DEF Inv, WorldOK, streamVars
<1>6. PageOK'
  BY <1>1, <1>3 DEF Inv, PageOK, placeVars
<1>7. DialogOK'
  <2>1. Calling(lists', "submission")
          <=> Calling(lists, "submission") /\ call.purpose # "submission"
    BY <1>4
  <2>2. /\ submitting' \in BOOLEAN /\ submission' \in Submissions
        /\ submission' # "none" => submitting'
        /\ submission' = "refreshing" <=> Calling(lists', "submission")
    BY <1>1, <2>1, Settled
  <2>3. Calling(lists, "submission")' = Calling(lists', "submission")
    BY DEF Calling
  <2>. QED
    BY <1>1, <2>2, <2>3 DEF Inv, DialogOK
<1>9. OwnOK'
  <2>1. CallsOK(lists, Now) /\ OwnReads(lists, own, known)
    BY DEF Inv, OwnOK
  <2>2. OwnReads(lists', own, known)
    BY <1>2, <1>3, <2>1, Kept
  <2>3. OwnReads(lists, own, known)' = OwnReads(lists', own, known)
    BY <1>1 DEF OwnReads
  <2>. QED
    BY <1>1, <1>3, <2>2, <2>3 DEF Inv, OwnOK
<1>8. FreshOK'
  BY <1>1 DEF FreshOK, Quiet
<1>. QED
  BY <1>3, <1>4, <1>5, <1>6, <1>7, <1>8, <1>9 DEF Inv

-----------------------------------------------------------------------------
(* Changes and events *)

\* The world grows: the lists read so far are what they were, and either an
\* event is due or the change is known to be missed.
LEMMA Grown ==
  ASSUME Inv, Announced \/ Silent, shown' = shown
  PROVE  /\ world' \in Seq(SUBSET Servers) /\ Now' \in 1..MaxChanges + 1 /\ Now' = Now + 1
         /\ due' \in 0..Now' - 1 /\ missed' \in BOOLEAN /\ (due' # 0 \/ missed')
         /\ Listed' = Listed
<1>1. Now \in Nat \ {0} /\ MaxChanges \in Nat /\ world \in Seq(SUBSET Servers) /\ Now = Len(world)
      /\ due \in 0..Now - 1 /\ missed \in BOOLEAN /\ Now <= MaxChanges /\ shown \in 0..Now
  BY Worlds, BoundsAssumption DEF Inv, WorldOK, PageOK, Announced, Silent, Now
<1>2. PICK servers \in SUBSET Servers : world' = Append(world, servers)
  <2>1. Last(world) \in SUBSET Servers
    BY <1>1 DEF Last
  <2>2. \A s \in Servers : Last(world) \ {s} \in SUBSET Servers /\ Last(world) \cup {s} \in SUBSET Servers
    BY <2>1
  <2>. QED
    BY <2>1, <2>2 DEF Announced, Silent
<1>3. world' \in Seq(SUBSET Servers) /\ Len(world') = Len(world) + 1
      /\ \A r \in 1..Now : world'[r] = world[r]
  BY <1>1, <1>2
<1>4. Now' = Now + 1
  BY <1>1, <1>3 DEF Now
<1>5. Listed' = Listed
  <2>1. shown = 0 \/ shown \in 1..Now
    BY <1>1
  <2>. QED
    BY <1>3, <2>1 DEF Listed
<1>6. (due' = due + 1 /\ missed' = missed) \/ (due' = due /\ missed' = TRUE)
  BY DEF Announced, Silent
<1>7. Now' \in 1..MaxChanges + 1
  BY <1>1, <1>4
<1>8. due' \in 0..Now' - 1 /\ missed' \in BOOLEAN /\ (due' # 0 \/ missed')
  <2>1. due \in Nat /\ due <= Now - 1
    BY <1>1
  <2>2. due' \in {due, due + 1}
    BY <1>6
  <2>3. due' \in 0..Now' - 1
    BY <1>1, <1>4, <2>1, <2>2
  <2>4. due' # 0 \/ missed'
    <3>1. CASE due' = due + 1
      BY <2>1, <3>1
    <3>2. CASE missed' = TRUE
      BY <3>2
    <3>. QED
      BY <1>6, <3>1, <3>2
  <2>5. missed' \in BOOLEAN
    BY <1>1, <1>6
  <2>. QED
    BY <2>3, <2>4, <2>5
<1>. QED
  BY <1>3, <1>4, <1>5, <1>7, <1>8

\* The calls that were in order stay so when the world grows.
LEMMA Older ==
  ASSUME NEW calls, NEW now \in Nat, CallsOK(calls, now)
  PROVE  CallsOK(calls, now + 1)
<1>1. MaxChanges \in Nat
  BY BoundsAssumption
<1>2. ASSUME NEW i \in 1..Len(calls) PROVE calls[i].read \in Nat
  <2>1. calls[i] \in ListCalls
    BY DEF CallsOK
  <2>. QED
    BY <1>1, <2>1 DEF ListCalls
<1>. QED
  BY <1>2 DEF CallsOK

\* A change of the servers sends an event, or is missed by the page.
LEMMA ChangeStep ==
  ASSUME Inv, Change
  PROVE  Inv'
<1>1. (Announced \/ Silent)
      /\ UNCHANGED <<streamVars, placeVars, shown, loading, lists, overtaken, dialogVars>>
  BY DEF Change
<1>2. /\ world' \in Seq(SUBSET Servers) /\ Now' \in 1..MaxChanges + 1 /\ Now' = Now + 1
      /\ due' \in 0..Now' - 1 /\ missed' \in BOOLEAN /\ (due' # 0 \/ missed')
      /\ Listed' = Listed
  BY <1>1, Grown
<1>3. WorldOK'
  BY <1>1, <1>2 DEF Inv, WorldOK, streamVars
<1>4. CallsOK(lists, Now)'
  BY <1>1, <1>2, Older, Worlds DEF Inv, CallsOK
<1>5. PageOK'
  BY <1>1, <1>2, Worlds DEF Inv, PageOK, placeVars
<1>6. DialogOK'
  BY <1>1 DEF Inv, DialogOK, Calling, dialogVars
<1>8. OwnOK'
  BY <1>1, <1>2, Worlds DEF Inv, OwnOK, OwnReads, dialogVars
<1>7. FreshOK'
  BY <1>2 DEF FreshOK, Quiet
<1>. QED
  BY <1>3, <1>4, <1>5, <1>6, <1>7, <1>8 DEF Inv

\* Events of the stream that ask for nothing.
LEMMA StreamStep ==
  ASSUME Inv, Publish \/ Subscribe \/ EndOfStream \/ Disconnect
  PROVE  Inv'
<1>1. UNCHANGED <<world, placeVars, shown, loading, lists, overtaken, dialogVars>>
  BY DEF Publish, Subscribe, EndOfStream, Disconnect, listVars
<1>2. /\ due' \in 0..Now - 1 /\ buffer' \in 0..Buffer /\ missed' \in BOOLEAN
      /\ stream' \in {"off", "connecting", "subscribed", "ending"}
      /\ due' = 0 /\ buffer' = 0 /\ ~missed' => Quiet
  <2>1. due \in 0..Now - 1 /\ buffer \in 0..Buffer /\ missed \in BOOLEAN /\ Buffer \in Nat /\ Now \in Nat
        /\ stream \in {"off", "connecting", "subscribed", "ending"}
    BY Worlds, BufferAssumption DEF Inv, WorldOK
  <2>2. CASE Publish
    <3>1. due > 0 /\ due' = due - 1
      BY <2>2 DEF Publish
    <3>2. \/ buffer < Buffer /\ buffer' = buffer + 1 /\ stream' = stream /\ missed' = missed
          \/ buffer' = buffer /\ missed' = TRUE /\ stream' \in {"ending", stream}
      BY <2>2 DEF Publish
    <3>3. due' \in 0..Now - 1
      BY <2>1, <3>1
    <3>4. buffer' \in 0..Buffer /\ (buffer' # 0 \/ missed')
      BY <2>1, <3>2
    <3>. QED
      BY <2>1, <3>2, <3>3, <3>4
  <2>3. CASE Subscribe \/ EndOfStream
    <3>1. UNCHANGED <<due, buffer, missed>> /\ stream' \in {"subscribed", "connecting"}
      BY <2>3 DEF Subscribe, EndOfStream, listVars
    <3>. QED
      BY <2>1, <3>1 DEF Quiet
  <2>4. CASE Disconnect
    <3>1. stream' = "connecting" /\ buffer' = 0 /\ missed' = (missed \/ buffer > 0) /\ due' = due
      BY <2>4 DEF Disconnect
    <3>2. missed' \in BOOLEAN /\ (~missed' => ~missed /\ ~(buffer > 0))
      BY <2>1, <3>1
    <3>3. 0 \in 0..Buffer
      BY <2>1
    <3>4. due' = 0 /\ ~missed' => Quiet
      BY <2>1, <3>1, <3>2 DEF Quiet
    <3>. QED
      BY <2>1, <3>1, <3>2, <3>3, <3>4
  <2>. QED
    BY <2>2, <2>3, <2>4
<1>3. Now' = Now /\ Listed' = Listed
  BY <1>1 DEF Now, Listed
<1>4. WorldOK'
  BY <1>1, <1>2, <1>3 DEF Inv, WorldOK
<1>5. PageOK'
  BY <1>1, <1>3 DEF Inv, PageOK, placeVars
<1>6. DialogOK'
  BY <1>1 DEF Inv, DialogOK, Calling, dialogVars
<1>9. OwnOK'
  BY <1>1, <1>3 DEF Inv, OwnOK, OwnReads, dialogVars
<1>7. FreshOK'
  BY <1>1, <1>2, <1>3 DEF Inv, FreshOK, Quiet, Listing, Newest, placeVars
<1>8. CallsOK(lists, Now)'
  BY <1>1, <1>3 DEF Inv
<1>. QED
  BY <1>4, <1>5, <1>6, <1>7, <1>8, <1>9 DEF Inv

\* An event was delivered, so that the list is asked for again.
LEMMA DeliverStep ==
  ASSUME Inv, Deliver
  PROVE  Inv'
<1>1. buffer > 0 /\ buffer' = buffer - 1 /\ missed' = FALSE
      /\ lists' = Append(lists, NewCall("refresh"))
      /\ UNCHANGED <<world, due, stream, drops, placeVars, shown, loading, overtaken, dialogVars>>
  BY DEF Deliver, Invalidate, Sending, NewCall
<1>2. Now' = Now /\ Listed' = Listed /\ Now \in Nat /\ CallsOK(lists, Now)
  BY <1>1, Worlds DEF Now, Listed, Inv
<1>3. "refresh" \in Purposes
  BY DEF Purposes
<1>4. /\ CallsOK(lists', Now)
      /\ lists' # << >> /\ ~Newest(lists').late /\ Newest(lists').read = 0
      /\ \A p : Calling(lists', p) <=> Calling(lists, p) \/ p = "refresh"
      /\ \A change, seen : OwnReads(lists, change, seen) => OwnReads(lists', change, seen)
  BY <1>1, <1>2, <1>3, Asked
<1>5. WorldOK'
  <2>1. buffer' \in 0..Buffer
    <3>1. buffer \in 0..Buffer /\ Buffer \in Nat
      BY BufferAssumption DEF Inv, WorldOK
    <3>. QED
      BY <1>1, <3>1
  <2>. QED
    BY <1>1, <1>2, <2>1 DEF Inv, WorldOK
<1>6. PageOK'
  BY <1>1, <1>2 DEF Inv, PageOK, placeVars
<1>7. DialogOK'
  <2>1. Calling(lists, "submission")' <=> Calling(lists, "submission")
    BY <1>4 DEF Calling
  <2>. QED
    BY <1>1, <2>1 DEF Inv, DialogOK, dialogVars
<1>9. OwnOK'
  BY <1>1, <1>2, <1>4 DEF Inv, OwnOK, OwnReads, dialogVars
<1>8. FreshOK'
  BY <1>4 DEF FreshOK, Newest
<1>. QED
  BY <1>2, <1>4, <1>5, <1>6, <1>7, <1>8, <1>9 DEF Inv

-----------------------------------------------------------------------------
(* AppShell *)

\* A page that is mounted asks for its list; the page that stays stays as it is.
LEMMA MountStep ==
  ASSUME Inv, Navigate \/ Back
  PROVE  Inv'
<1>1. PICK next \in Paths : Move(next) /\ Mount(PageFromPath(next))
  BY DEF Navigate, Back, OnPopState
<1>. DEFINE there == PageFromPath(next)
<1>2. path' = next /\ page' = there /\ UNCHANGED <<world, due, drops>>
  BY <1>1 DEF Move, Mount
<1>3. Now' = Now /\ Now \in Nat
  BY <1>2, Worlds DEF Now
<1>4. CASE there = page
  <2>1. UNCHANGED <<page, stream, buffer, listVars, dialogVars>>
    BY <1>1, <1>4 DEF Mount
  <2>3. WorldOK'
    BY <1>2, <1>3, <2>1 DEF Inv, WorldOK, listVars
  <2>4. PageOK'
    BY <1>2, <1>3, <2>1 DEF Inv, PageOK, listVars
  <2>5. DialogOK'
    BY <2>1 DEF Inv, DialogOK, Calling, listVars, dialogVars
  <2>8. OwnOK'
    BY <1>3, <2>1 DEF Inv, OwnOK, OwnReads, listVars, dialogVars
  <2>6. FreshOK'
    BY <1>2, <1>3, <2>1 DEF Inv, FreshOK, Quiet, Listing, Newest, listVars
  <2>7. CallsOK(lists, Now)'
    BY <1>3, <2>1 DEF Inv, listVars
  <2>. QED
    BY <2>3, <2>4, <2>5, <2>6, <2>7, <2>8 DEF Inv
<1>5. CASE there # page
  <2>1. /\ stream' \in {"off", "connecting"} /\ buffer' = 0 /\ shown' = 0 /\ loading' = TRUE
        /\ missed' = FALSE /\ overtaken' = FALSE /\ lists' = FirstCalls(there)
        /\ selected' = Nothing /\ confirmation' = FALSE /\ submitting' = FALSE
        /\ submission' = "none" /\ own' = 0 /\ known' = 0
    BY <1>1, <1>5 DEF Mount, FirstCalls
  <2>2. /\ CallsOK(lists', Now) /\ ~Calling(lists', "submission") /\ OwnReads(lists', 0, 0)
        /\ there # "dashboard" => /\ lists' # << >> /\ ~Newest(lists').late
                                  /\ Newest(lists').read = 0
    BY <1>3, <2>1, FirstCallsOK
  <2>3. WorldOK'
    <3>1. 0 \in 0..Buffer
      BY BufferAssumption
    <3>. QED
      BY <1>2, <1>3, <2>1, <3>1 DEF Inv, WorldOK
  <2>4. PageOK'
    <3>1. 0 \in 0..Now
      BY <1>3
    <3>. QED
      BY <1>2, <1>3, <2>1, <3>1 DEF Inv, PageOK
  <2>5. DialogOK'
    <3>1. Calling(lists, "submission")' = Calling(lists', "submission")
      BY DEF Calling
    <3>. QED
      BY <2>1, <2>2, <3>1 DEF DialogOK, Submissions
  <2>7. OwnOK'
    <3>1. OwnReads(lists, own, known)' = OwnReads(lists', own', known')
      BY DEF OwnReads
    <3>2. 0 \in 0..Now
      BY <1>3
    <3>. QED
      BY <1>3, <2>1, <2>2, <3>1, <3>2 DEF OwnOK
  <2>6. FreshOK'
    <3>1. Listing' => there # "dashboard"
      BY <1>2 DEF Listing
    <3>2. Newest(lists)' = Newest(lists')
      BY DEF Newest
    <3>. QED
      BY <2>2, <3>1, <3>2 DEF FreshOK
  <2>. QED
    BY <1>3, <2>2, <2>3, <2>4, <2>5, <2>6, <2>7 DEF Inv
<1>. QED
  BY <1>4, <1>5

-----------------------------------------------------------------------------
(* Detail, dialog and submission *)

\* A step that only touches dialog and path.
LEMMA DialogStep ==
  ASSUME Inv, UNCHANGED <<world, due, streamVars, page, listVars, own, known>>,
         path' \in Paths, page = PageFromPath(path'), DialogOK'
  PROVE  Inv'
<1>1. Now' = Now
  BY DEF Now
<1>2. WorldOK'
  BY <1>1 DEF Inv, WorldOK, streamVars, listVars
<1>3. CallsOK(lists, Now)'
  BY <1>1 DEF Inv, listVars
<1>4. PageOK'
  BY <1>1 DEF Inv, PageOK, listVars
<1>5. FreshOK'
  BY <1>1 DEF Inv, FreshOK, Quiet, Listing, Newest, streamVars, listVars
<1>6. OwnOK'
  BY <1>1 DEF Inv, OwnOK, OwnReads, listVars
<1>. QED
  BY <1>2, <1>3, <1>4, <1>5, <1>6 DEF Inv

\* A submission stays the one of the list calls when these do not change.
LEMMA SameLists ==
  ASSUME UNCHANGED listVars
  PROVE  Calling(lists, "submission")' <=> Calling(lists, "submission")
BY DEF listVars, Calling

\* A detail is opened; a confirmation that is still set stays set.
LEMMA OpenDetailStep ==
  ASSUME Inv, OpenDetail
  PROVE  Inv'
<1>1. PICK s \in Listed : selected' = s /\ path' = s
  BY DEF OpenDetail
<1>2. page = "servers"
      /\ UNCHANGED <<world, due, streamVars, page, moves, listVars, confirmation,
                     submitting, submission, own, known>>
  BY DEF OpenDetail
<1>3. s \in Servers
  BY <1>1, Worlds
<1>4. path' \in Paths /\ page = PageFromPath(path')
  BY <1>1, <1>2, <1>3, Pages DEF Paths
<1>5. DialogOK'
  BY <1>1, <1>2, <1>3, SameLists DEF Inv, DialogOK
<1>. QED
  BY <1>2, <1>4, <1>5, DialogStep

\* What the user does in a detail.
LEMMA DetailStep ==
  ASSUME Inv, CloseDetail \/ Choose \/ Cancel \/ Confirm
  PROVE  Inv'
<1>1. page = "servers"
      /\ UNCHANGED <<world, due, streamVars, page, moves, listVars, own, known>>
  BY DEF CloseDetail, Choose, Cancel, Confirm, DialogShown, DetailShown, placeVars
<1>2. path' \in Paths /\ page = PageFromPath(path')
  <2>1. path' \in {path, "/servers"} /\ path \in Paths /\ page = PageFromPath(path)
    BY DEF CloseDetail, Choose, Cancel, Confirm, placeVars, Inv, PageOK
  <2>. QED
    BY <1>1, <2>1, Pages DEF Paths, Places
<1>3. CASE CloseDetail \/ Choose \/ Cancel
  <2>1. selected' \in {selected, Nothing} /\ confirmation' \in BOOLEAN
        /\ UNCHANGED <<submitting, submission>>
    BY <1>3 DEF CloseDetail, Choose, Cancel, SubmittingKept
  <2>2. DialogOK'
    BY <1>1, <2>1, SameLists DEF Inv, DialogOK
  <2>. QED
    BY <1>1, <1>2, <2>2, DialogStep
<1>4. CASE Confirm
  <2>1. submitting' = TRUE /\ submission' = "sent" /\ ~submitting
        /\ UNCHANGED <<selected, confirmation>>
    BY <1>4 DEF Confirm
  <2>2. submission = "none"
    BY <2>1 DEF Inv, DialogOK
  <2>3. DialogOK'
    BY <1>1, <2>1, <2>2, SameLists DEF Inv, DialogOK, Submissions
  <2>. QED
    BY <1>1, <1>2, <2>3, DialogStep
<1>. QED
  BY <1>3, <1>4

\* The server carries the submission out or refuses it.
LEMMA AnswerPostStep ==
  ASSUME Inv, AnswerPost
  PROVE  Inv'
<1>1. submission = "sent"
      /\ UNCHANGED <<streamVars, placeVars, shown, loading, lists, overtaken, selected,
                     confirmation, submitting, known>>
  BY DEF AnswerPost
<1>2. CASE submission' = "accepted" /\ Announced /\ own' = Now + 1
  <2>1. /\ world' \in Seq(SUBSET Servers) /\ Now' \in 1..MaxChanges + 1 /\ Now' = Now + 1
        /\ due' \in 0..Now' - 1 /\ missed' \in BOOLEAN /\ (due' # 0 \/ missed')
        /\ Listed' = Listed
    BY <1>1, <1>2, Grown
  <2>2. WorldOK'
    BY <1>1, <2>1 DEF Inv, WorldOK, streamVars
  <2>3. CallsOK(lists, Now)'
    BY <1>1, <2>1, Older, Worlds DEF Inv, CallsOK
  <2>4. PageOK'
    BY <1>1, <2>1, Worlds DEF Inv, PageOK, placeVars
  <2>5. DialogOK'
    BY <1>1, <1>2 DEF Inv, DialogOK, Calling, Submissions
  <2>7. OwnOK'
    <3>1. own' \in 0..Now' /\ known \in 0..Now' /\ known \in 0..Now /\ Now \in Nat
      BY <1>2, <2>1, Worlds DEF Inv, OwnOK
    <3>2. \A i \in 1..Len(lists) : lists[i].purpose # "submission"
      BY <1>1 DEF Inv, DialogOK, Calling
    <3>3. OwnReads(lists', own', known)
      BY <1>1, <3>2 DEF Inv, OwnOK, OwnReads
    <3>4. OwnReads(lists, own, known)' = OwnReads(lists', own', known)
      BY <1>1 DEF OwnReads
    <3>. QED
      BY <1>1, <3>1, <3>3, <3>4 DEF Inv, OwnOK
  <2>6. FreshOK'
    BY <2>1 DEF FreshOK, Quiet
  <2>. QED
    BY <2>2, <2>3, <2>4, <2>5, <2>6, <2>7 DEF Inv
<1>3. CASE submission' = "refused" /\ UNCHANGED <<world, due, missed, own>>
  <2>1. UNCHANGED <<world, due, streamVars, page, listVars, own, known>> /\ path' = path
    BY <1>1, <1>3 DEF placeVars, listVars
  <2>2. DialogOK'
    BY <1>1, <1>3, <2>1, SameLists DEF Inv, DialogOK, Submissions
  <2>. QED
    BY <2>1, <2>2, DialogStep DEF Inv, PageOK
<1>. QED
  BY <1>2, <1>3 DEF AnswerPost

\* The submission goes on with a list call, of which there is no other.
LEMMA PostSucceedsStep ==
  ASSUME Inv, PostSucceeds
  PROVE  Inv'
<1>1. submission = "accepted" /\ submission' = "refreshing" /\ confirmation' = FALSE
      /\ lists' = Append(lists, NewCall("submission")) /\ missed' = FALSE
      /\ UNCHANGED <<world, due, streamVars, placeVars, shown, loading, overtaken,
                     selected, submitting, own, known>>
  BY DEF PostSucceeds, Sending, NewCall
<1>2. Now' = Now /\ Listed' = Listed /\ Now \in Nat /\ CallsOK(lists, Now)
  BY <1>1, Worlds DEF Now, Listed, Inv
<1>3. "submission" \in Purposes /\ ~Calling(lists, "submission")
      /\ ("submission" # "refresh" => ~Calling(lists, "submission"))
  BY <1>1 DEF Purposes, Inv, DialogOK
<1>4. /\ CallsOK(lists', Now)
      /\ lists' # << >> /\ ~Newest(lists').late /\ Newest(lists').read = 0
      /\ \A p : Calling(lists', p) <=> Calling(lists, p) \/ p = "submission"
      /\ \A change, seen : OwnReads(lists, change, seen) => OwnReads(lists', change, seen)
  <2>1. PICK purpose \in Purposes : purpose = "submission"
    BY <1>3
  <2>2. lists' = Append(lists, NewCall(purpose)) /\ ~Calling(lists, purpose)
    BY <1>1, <1>3, <2>1
  <2>3. /\ CallsOK(lists', Now)
        /\ lists' # << >> /\ ~Newest(lists').late /\ Newest(lists').read = 0
        /\ \A p : Calling(lists', p) <=> Calling(lists, p) \/ p = purpose
        /\ \A change, seen : OwnReads(lists, change, seen) => OwnReads(lists', change, seen)
    BY <1>2, <2>2, Asked
  <2>. QED
    BY <2>1, <2>3
<1>5. WorldOK'
  BY <1>1, <1>2 DEF Inv, WorldOK, streamVars
<1>6. PageOK'
  BY <1>1, <1>2 DEF Inv, PageOK, placeVars
<1>7. DialogOK'
  <2>1. Calling(lists, "submission")'
    BY <1>4 DEF Calling
  <2>. QED
    BY <1>1, <2>1 DEF Inv, DialogOK, Submissions
<1>9. OwnOK'
  BY <1>1, <1>2, <1>4 DEF Inv, OwnOK, OwnReads
<1>8. FreshOK'
  BY <1>4 DEF FreshOK, Newest
<1>. QED
  BY <1>2, <1>4, <1>5, <1>6, <1>7, <1>8, <1>9 DEF Inv

\* A submission that fails ends without a list call.
LEMMA PostFailsStep ==
  ASSUME Inv, PostFails
  PROVE  Inv'
<1>1. submission \in {"accepted", "refused"} /\ submission' = "none" /\ submitting' = FALSE
      /\ UNCHANGED <<world, due, streamVars, placeVars, listVars, selected,
                     confirmation, own, known>>
  BY DEF PostFails, Ends
<1>2. path' = path /\ page' = page
  BY <1>1 DEF placeVars
<1>3. ~Calling(lists, "submission") /\ "none" \in Submissions
  BY <1>1 DEF Inv, DialogOK, Submissions
<1>4. DialogOK'
  <2>1. Calling(lists, "submission")' <=> Calling(lists, "submission")
    BY <1>1, SameLists
  <2>. QED
    BY <1>1, <1>3, <2>1 DEF Inv, DialogOK
<1>. QED
  BY <1>1, <1>2, <1>4, DialogStep DEF Inv, PageOK

-----------------------------------------------------------------------------

\* The invariant is inductive.
LEMMA NextInv == Inv /\ [Next]_vars => Inv'
<1>. SUFFICES ASSUME Inv, [Next]_vars PROVE Inv'
  OBVIOUS
<1>1. CASE ListStep
  BY <1>1, ReadStep, ArriveStep, FailStep DEF ListStep
<1>2. CASE PostStep
  BY <1>2, AnswerPostStep, PostSucceedsStep, PostFailsStep DEF PostStep
<1>3. CASE EventStep
  BY <1>3, ChangeStep, StreamStep, DeliverStep DEF EventStep
<1>4. CASE UserStep
  BY <1>4, MountStep, OpenDetailStep, DetailStep DEF UserStep
<1>5. CASE UNCHANGED vars
  <2>1. UNCHANGED <<world, due, streamVars, page, path, listVars, dialogVars>>
    BY <1>5 DEF vars, placeVars
  <2>2. DialogOK'
    BY <2>1, SameLists DEF Inv, DialogOK, dialogVars
  <2>. QED
    BY <2>1, <2>2, DialogStep DEF Inv, PageOK, dialogVars
<1>. QED
  BY <1>1, <1>2, <1>3, <1>4, <1>5 DEF Next

\* Every step of lists, events, navigation and dialogs keeps the invariant.
THEOREM ServersInvariant == Spec => []Inv
<1>. QED
  BY InitInv, NextInv, PTL DEF Spec

\* Types; the page is that of the path, and buttons are disabled while a
\* submission or its refresh is awaited (AppShell.tsx:29, ServersPage.tsx:80-90).
THEOREM ServersTypeCorrect == Spec => []ServersTypeOK
<1>1. Inv => ServersTypeOK
  <2>. SUFFICES ASSUME Inv PROVE ServersTypeOK
    OBVIOUS
  <2>1. due \in 0..MaxChanges
    <3>1. due \in 0..Now - 1 /\ Now \in 1..MaxChanges + 1 /\ MaxChanges \in Nat
      BY BoundsAssumption DEF Inv, WorldOK
    <3>. QED
      BY <3>1
  <2>2. lists \in Seq(ListCalls)
    BY DEF Inv, CallsOK
  <2>3. submission = "refreshing" <=> \E i \in 1..Len(lists) : lists[i].purpose = "submission"
    BY DEF Inv, DialogOK, Calling
  <2>. QED
    BY <2>1, <2>2, <2>3 DEF Inv, WorldOK, PageOK, DialogOK, OwnOK, Submissions, ServersTypeOK
<1>. QED
  BY <1>1, ServersInvariant, PTL

\* When everything has been answered the page shows the present, unless an event
\* was not raised or lost or an older list came last (useServerEvents.ts,
\* ServersPage.tsx:38-40).
THEOREM ServersFresh == Spec => []StaleOnlyByLossOrOvertaking
<1>1. Inv => StaleOnlyByLossOrOvertaking
  BY DEF Inv, FreshOK, Quiet, StaleOnlyByLossOrOvertaking
<1>. QED
  BY <1>1, ServersInvariant, PTL

\* What a submission changed stays on the page once the list asked for after it
\* has arrived, until a list asked for before comes in (ServersPage.tsx:38-40,
\* 82-85).
THEOREM ServersOwnChange == Spec => []OwnChangeShown
<1>1. Inv => OwnChangeShown
  BY DEF Inv, OwnOK, OwnChangeShown
<1>. QED
  BY <1>1, ServersInvariant, PTL
=============================================================================
