------------------------ MODULE InterfacesRefinement ------------------------
(***************************************************************************)
(* Interfaces implements Listing: there is one picture, that of             *)
(* net.Interfaces, and the facts are the addresses of each index.           *)
(***************************************************************************)
EXTENDS Interfaces

\* Each interface of the picture has one row, in the order of the indexes, with all the
\* addresses that its index had at one moment since, or with none.
Answers(request, pictures, observed, rows) ==
    /\ \A n \in Indexes :
         Cardinality({i \in DOMAIN rows : rows[i].index = n})
            = IF pictures[1][n] = NoLink THEN 0 ELSE 1
    /\ \A i, j \in DOMAIN rows : i < j => rows[i].index < rows[j].index
    /\ \A i \in DOMAIN rows :
         LET l == pictures[1][rows[i].index]
         IN  \E addrs \in observed[rows[i].index] \cup {<<>>} :
               rows[i] = NewInterface([index |-> rows[i].index, name |-> l.name, mac |-> l.mac,
                                       flags |-> l.flags, addrs |-> addrs])

Promise == INSTANCE Listing
    WITH Sources <- 1, Owners <- Indexes, Answers <- Answers,
         request <- "all", world <- <<links>>,
         facts <- [n \in Indexes |-> links[n].addrs],
         pictures <- IF pc = "list" \/ outcome = "failed" THEN <<>> ELSE <<listed>>,
         observed <- held, rows <- result, outcome <- outcome

\* A listing is one picture of the interfaces with addresses read since, or an error.
ImplementsListing == Promise!Safety
=============================================================================
