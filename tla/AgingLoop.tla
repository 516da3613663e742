----------------------------- MODULE AgingLoop -----------------------------
(***************************************************************************)
(* The passage of time in the display server of nodescape1.  Silence has   *)
(* to show: a status fades towards magenta as it ages, but a picture is    *)
(* only repainted when a packet of its own attribute is handled or when    *)
(* one whole select() goes by without any packet.                          *)
(*                                                                         *)
(* Time is relative here (ages and waits, each capped where it stops       *)
(* making a difference), so that the loop can be followed forever.  Every  *)
(* attribute already has its slot.  The server handles what is in the      *)
(* socket buffer, and takes a timeout that is due, before time advances.   *)
(***************************************************************************)
EXTENDS Integers, Sequences

CONSTANTS Attr, Node,
          SelTimeout,  \* SELTIMEOUT in ticks
          RefreshGap,  \* FADETIME/(512*MAXFADE) in ticks
          BeginFade,   \* BEGINFADE in ticks
          FadeTime     \* FADETIME in ticks

ASSUME AgingConstants ==
    /\ SelTimeout \in Nat \ {0} /\ RefreshGap \in Nat \ {0}
    /\ BeginFade \in Nat /\ FadeTime \in Nat \ {0}

VARIABLES wait,   \* ticks the current select has waited
          inbox,  \* the socket buffer
          sent,   \* sources that sent a packet in this tick
          age,    \* age[a][n]: age of the status of node n
          since,  \* since[a]: ticks since the last repaint of a
          shown,  \* shown[a][n]: the fade the picture shows
          quiet   \* history: ticks since a packet was last handled

picture == <<since, shown>>
vars == <<wait, inbox, sent, age, picture, quiet>>

Old  == BeginFade + FadeTime
Calm == RefreshGap + SelTimeout

Packets == Attr \X Node
Least(x, y) == IF x <= y THEN x ELSE y

Fade(t) == IF t <= BeginFade THEN 0 ELSE Least(t - BeginFade, FadeTime)

\* Mutant: the time of the repaint is set before the gap is checked.
RepaintStampsFirst(A, g) ==
    LET due == {a \in A : since[a] >= RefreshGap}
    IN  /\ since' = [a \in Attr |-> IF a \in A THEN 0 ELSE since[a]]
        /\ shown' = [a \in Attr |-> IF a \in due THEN [n \in Node |-> Fade(g[a][n])]
                                    ELSE shown[a]]

(* uptint on the pictures of the attributes in A, with ages g *)
Repaint(A, g) ==
    LET due == {a \in A : since[a] >= RefreshGap}
    IN  /\ since' = [a \in Attr |-> IF a \in due THEN 0 ELSE since[a]]
        /\ shown' = [a \in Attr |-> IF a \in due THEN [n \in Node |-> Fade(g[a][n])]
                                    ELSE shown[a]]

Init == /\ wait = 0 /\ quiet = 0
        /\ inbox = <<>> /\ sent = {}
        /\ age = [a \in Attr |-> [n \in Node |-> 0]]
        /\ since = [a \in Attr |-> Calm]
        /\ shown = [a \in Attr |-> [n \in Node |-> 0]]

(* A source sends at most one packet in a tick. *)
Arrive(p) == /\ p \notin sent
             /\ sent' = sent \cup {p}
             /\ inbox' = Append(inbox, p)
             /\ UNCHANGED <<wait, age, picture, quiet>>

(* A packet of attribute a: it widens the bounds of the colours or it does *)
(* not, and if it does the repaint comes before the new status is stored.  *)
Store(a, n) == /\ age' = [age EXCEPT ![a][n] = 0]
               /\ Repaint({a}, age) \/ Repaint({a}, age')

(* One that is older than the status of its node may still widen them.     *)
Ignore(a) == /\ Repaint({a}, age) \/ UNCHANGED <<since, shown>>
             /\ UNCHANGED age

Handle(a, n) ==
    /\ inbox # <<>> /\ Head(inbox) = <<a, n>>
    /\ inbox' = Tail(inbox)
    /\ wait' = 0 /\ quiet' = 0
    /\ Store(a, n) \/ Ignore(a)
    /\ UNCHANGED sent

(* A whole select without a packet: every picture may be repainted. *)
SelectTimeout == /\ inbox = <<>> /\ wait = SelTimeout
                 /\ wait' = 0
                 /\ Repaint(Attr, age)
                 /\ UNCHANGED <<inbox, sent, age, quiet>>

Tick == /\ inbox = <<>> /\ wait < SelTimeout
        /\ wait' = wait + 1
        /\ quiet' = Least(quiet + 1, Calm)
        /\ age' = [a \in Attr |-> [n \in Node |-> Least(age[a][n] + 1, Old)]]
        /\ since' = [a \in Attr |-> Least(since[a] + 1, Calm)]
        /\ sent' = {}
        /\ UNCHANGED <<inbox, shown>>

Next == \/ \E p \in Packets : Arrive(p)
        \/ \E a \in Attr, n \in Node : Handle(a, n)
        \/ SelectTimeout
        \/ Tick

Spec == Init /\ [][Next]_vars

(* The server runs and time passes; no source has to send anything. *)
FairSpec == /\ Spec
            /\ WF_vars(\E a \in Attr, n \in Node : Handle(a, n))
            /\ WF_vars(SelectTimeout)
            /\ WF_vars(Tick)

----------------------------------------------------------------------------
(* The types of the state. *)
TypeOK == /\ wait \in 0 .. SelTimeout /\ quiet \in 0 .. Calm
          /\ inbox \in Seq(Packets) /\ sent \subseteq Packets
          /\ age \in [Attr -> [Node -> 0 .. Old]]
          /\ since \in [Attr -> 0 .. Calm]
          /\ shown \in [Attr -> [Node -> 0 .. FadeTime]]

(* When no packet was handled for as long as a repaint gap and a select,   *)
(* every picture was repainted less than that long ago, so it shows a fade *)
(* that is at most that far behind the age of the status.                  *)
QuietRepaints ==
    quiet = Calm => \A a \in Attr : /\ since[a] < Calm
                                    /\ \A n \in Node : Fade(age[a][n]) < shown[a][n] + Calm

(* nodescape.h:42, "unless no packets have been reported for too long, in  *)
(* which case the color will change to magenta": a status that stays old   *)
(* reaches the last step of its fade.                                      *)
SilenceShows ==
    \A a \in Attr, n \in Node :
        age[a][n] = Old ~> (age[a][n] # Old \/ shown[a][n] = FadeTime)

(* The same where a select that times out comes again and again: a longer  *)
(* quiet than one select has.                                              *)
SilenceShowsIfQuiet == []<>(quiet > SelTimeout) => SilenceShows

(* Likewise for the way back: a node that reports again does not stay      *)
(* painted as silent, unless it falls silent again.                        *)
ReturnShowsIfQuiet ==
    []<>(quiet > SelTimeout) =>
        \A a \in Attr, n \in Node :
            age[a][n] = 0 ~> (age[a][n] = Old \/ shown[a][n] < FadeTime)
============================================================================
