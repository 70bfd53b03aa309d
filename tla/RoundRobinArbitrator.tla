------------------------ MODULE RoundRobinArbitrator ------------------------
(***************************************************************************)
(* roundRobinArbitrator (bus_arbitrator.c) between cores that ask for the  *)
(* bus.  Nothing calls it at present: the array of requests and the bus    *)
(* are whatever a caller passes.                                           *)
(***************************************************************************)
EXTENDS Integers

CONSTANT NumCores  \* NUM_CORES

Cores  == 0 .. NumCores - 1
NoCore == -1

VARIABLES
    lastGrantedCore,  \* static: the core granted last
    busRequests,      \* the array passed by the last call
    answer            \* what the last call returned

vars == <<lastGrantedCore, busRequests, answer>>

TypeOK ==
    /\ lastGrantedCore \in Cores \cup {NoCore}
    /\ busRequests \in [Cores -> BOOLEAN]
    /\ answer \in Cores \cup {NoCore}

Init ==
    /\ lastGrantedCore = NoCore
    /\ busRequests = [c \in Cores |-> FALSE]
    /\ answer = NoCore

\* The core at step i of the search.  C truncates: -1 % NUM_CORES is -1, so
\* that the first call looks at busRequests[-1] first.
Candidate(i) ==
    IF lastGrantedCore + i < 0 THEN NoCore
    ELSE (lastGrantedCore + i) % NumCores

\* stray: what lies in front of the array.
Asks(requests, stray, c) == IF c = NoCore THEN stray ELSE requests[c]

\* The search starts with the core granted last.
Grants(requests, stray, c) ==
    \E i \in 0 .. NumCores - 1 :
        /\ c = Candidate(i) /\ Asks(requests, stray, c)
        /\ \A j \in 0 .. i - 1 : ~Asks(requests, stray, Candidate(j))

Grant(requests, stray) ==
    /\ busRequests' = requests
    /\ \E c \in Cores \cup {NoCore} :
          /\ Grants(requests, stray, c)
          /\ lastGrantedCore' = c /\ answer' = c

\* The bus is not busy, or nobody asks.
GrantNobody(requests, stray) ==
    /\ busRequests' = requests
    /\ answer' = NoCore
    /\ UNCHANGED lastGrantedCore

Next == \E requests \in [Cores -> BOOLEAN], stray \in BOOLEAN, busy \in BOOLEAN :
    \/ busy /\ Grant(requests, stray)
    \/ /\ ~busy \/ \A c \in Cores \cup {NoCore} : ~Grants(requests, stray, c)
       /\ GrantNobody(requests, stray)

Spec == Init /\ [][Next]_vars
-----------------------------------------------------------------------------
\* The comment in roundRobinArbitrator: "round robin".  The core granted last is
\* granted again only if no other core asks.
NextInTurn ==
    [][answer' # NoCore /\ answer' = lastGrantedCore
       => \A c \in Cores \ {answer'} : ~busRequests'[c]]_vars
=============================================================================
