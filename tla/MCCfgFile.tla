----------------------------- MODULE MCCfgFile -----------------------------
(* CfgFile with the files its runs start from.                             *)
EXTENDS CfgFile, TLC

CONSTANTS s1, s2, k1, k2, v1, v2

TwoSections == {s1, s2}
TwoKeys     == {k1, k2}
TwoValues   == {v1, v2}

Written(e) == [entry |-> e, indent |-> FALSE, hash |-> FALSE]
Remark(n)  == [NoEntry EXCEPT !.note = n]

(* Every file of at most four plain lines that names no section twice and  *)
(* no key twice in a section.                                              *)
PlainEntries ==
  {SectionOf(s) : s \in Section} \cup {Pair(k, v1) : k \in Key} \cup {Remark(n) : n \in Note}

Unambiguous(t) ==
  \A i, j \in DOMAIN t : i < j =>
    /\ t[i].section # NULL => t[i].section # t[j].section
    /\ t[i].id # NULL /\ t[i].id = t[j].id => \E l \in i..j : t[l].section # NULL

PlainFiles ==
  {[i \in DOMAIN t |-> Written(t[i])] :
     t \in {u \in UNION {[1..n -> PlainEntries] : n \in 0..4} : Unambiguous(u)}}

(* Sections and keys are interchangeable; the files hold only v1.          *)
Renaming == Permutations(Section) \cup Permutations(Key)

(* A file in which a key can be inserted between two sections.             *)
RemarkedFile  == {<<Written(SectionOf(s1)), Written(Pair(k1, v1)),
                    Written(Remark("block")), Written(SectionOf(s2))>>}
=============================================================================
