--------------------------- MODULE MCSpectrometer ---------------------------
(* Feeds of the spectrometer: three blocks of two frames in each of two    *)
(* cells, in tickets of four frames, as sent and with what a network and a *)
(* retuned beam do to them.                                                *)
EXTENDS Spectrometer

frame(i, t) == [tag |-> 2 * i, tun |-> t, pol |-> 0, freq |-> "a"]

Sent == [k \in 1 .. 12 |-> frame((k + 1) \div 2, 1 + ((k + 1) % 2))]

Without(k)    == RemoveAt(Sent, k)
Lacking(i, j) == RemoveAt(RemoveAt(Sent, j), i)      \* i < j
Swapped(j, k) == [Sent EXCEPT ![j] = Sent[k], ![k] = Sent[j]]
Late          == SubSeq(Sent, 5, 8) \o SubSeq(Sent, 1, 4) \o SubSeq(Sent, 9, 12)
Retuned(k)    == [j \in 1 .. 12 |-> IF j >= k /\ Sent[j].tun = 2
                                 THEN [Sent[j] EXCEPT !.freq = "b"] ELSE Sent[j]]
Bad(k)        == [Sent EXCEPT ![k].tag = 0]
Shifted(k)    == [j \in 1 .. 12 |-> IF j >= k THEN [Sent[j] EXCEPT !.tag = @ + 1] ELSE Sent[j]]

TicketsOf(s) == [i \in 1 .. (Len(s) + 3) \div 4 |-> SubSeq(s, 4 * i - 3, Min({4 * i, Len(s)}))]

FeedSet ==
  {TicketsOf(s) : s \in {Sent, Bad(5), Retuned(7), Retuned(6), Shifted(6),
                         Lacking(1, 6), Lacking(2, 6), Lacking(4, 8)}
                        \cup {Without(k) : k \in {1, 2, 4, 5, 8, 9, 11}}
                        \cup {Swapped(1, 2), Swapped(4, 5), Swapped(5, 7), Swapped(7, 9), Late}}
  \cup {<< <<>> >> \o TicketsOf(Sent)}
=============================================================================
