----------------------------- MODULE MCSalesTurn -----------------------------
(* Instances of SalesTurn for TLC: one day, three hours. *)
EXTENDS SalesTurn

Plain(k) == [kind |-> k, when |-> NoSlot, also |-> NoSlot, window |-> FALSE,
              count |-> FALSE, accept |-> FALSE]
Says(k, w) == [Plain(k) EXCEPT !.when = w]

\* Every kind of message; a time of day goes with a day at most, and the other
\* hours are named where they differ from what is stored or offered.
Messages ==
  {Plain(k) : k \in PlainKind \ {"thanks", "hello", "faq"}}
    \cup {[Says("booking", w) EXCEPT !.count = c] : w \in When, c \in BOOLEAN}
    \cup {Says("temporal", w) : w \in {<<1, 0>>, <<0, 1>>, <<1, 2>>}}
    \cup {[Says(k, w) EXCEPT !.window = TRUE] :
            k \in {"booking", "temporal"}, w \in {NoSlot, <<1, 0>>}}
    \cup {Says(k, w) : k \in {"inquiry", "price"}, w \in {NoSlot, <<1, 1>>}}
    \cup {[Says("pair", <<d, 1>>) EXCEPT !.also = <<d, 2>>] : d \in {0, 1}}
    \cup {[Plain("number") EXCEPT !.count = TRUE]}
    \cup {[m EXCEPT !.accept = TRUE] :
            m \in {Plain("other"), Says("temporal", <<0, 2>>),
                   [Plain("temporal") EXCEPT !.window = TRUE],
                   [Says("pair", <<0, 2>>) EXCEPT !.also = <<0, 3>>]}}

FirstHour == {<<1, 1>>}

\* A bound: a talk is followed until two handlers have worked on its row at once.
Alone == ~overlapped

\* What the properties ask of a state: of the last reply, whether it ended a
\* cancelled talk.
View == <<row, turns, nudge, due, busy, connected, vacant, ghosts, reply.say = "cancelled">>
=============================================================================
