------------------------------ MODULE NameSpace ------------------------------
(***************************************************************************)
(* What a tree of directories promises its callers.  In a directory a name *)
(* stands for at most one object, a file or a directory known by its first *)
(* cluster.  A call that answers "ok" has done what it says; one that      *)
(* answers with an error may have done part of it, to the names it was     *)
(* given and to no other.                                                   *)
(*                                                                         *)
(* In a directory where a call has failed, objects may stay out of sight:  *)
(* what is put there is found at once or comes to light with a later call  *)
(* on that directory.  Elsewhere it is found at once.  What is found stays *)
(* the same until a call is given its name.                                *)
(***************************************************************************)
CONSTANTS Name, Root, DirCluster, NoDir, Absent

VARIABLES
    ns,      \* directory -> name -> object or Absent
    unseen,  \* directory -> the names and objects put there and out of sight
    trouble, \* the directories where a call has failed
    answer   \* the last call: what it was, on which names, whether it went well

Empty == [n \in Name |-> Absent]

Init ==
    /\ ns = [d \in {Root} |-> Empty]
    /\ unseen = [d \in {Root} |-> {}]
    /\ trouble = {}
    /\ answer = [call |-> "none", on |-> <<>>, ok |-> TRUE]

\* Directory d after the names in taken were taken away and the pairs in put added.
Edited(d, put, taken) ==
    LET pool == unseen[d] \cup put
    IN  /\ \A n \in Name \ taken :
             ns[d][n] # Absent => ns'[d][n] = ns[d][n]
        /\ \A n \in Name :
             n \in taken \/ ns[d][n] = Absent =>
               ns'[d][n] = Absent \/ <<n, ns'[d][n]>> \in pool
        /\ unseen'[d] \subseteq pool
        /\ \A x \in pool : x \in unseen'[d] \/ ns'[d][x[1]] = x[2]
        /\ \A x \in put : d \notin trouble /\ (x[1] \in taken \/ ns[d][x[1]] = Absent)
                             => ns'[d][x[1]] = x[2]

Same(d) == ns'[d] = ns[d] /\ unseen'[d] = unseen[d]
Directories(D) == DOMAIN ns' = D /\ DOMAIN unseen' = D
Nothing == UNCHANGED <<ns, unseen>>

Answered(call, on, dirs, ok) ==
    /\ answer' = [call |-> call, on |-> on, ok |-> ok]
    /\ trouble' = (IF ok THEN trouble ELSE trouble \cup dirs) \cap DOMAIN ns'

\* A file is the object NoDir.
CreateFile(d, n, ok) ==
    /\ Answered("create", <<d, n>>, {d}, ok)
    /\ ns[d][n] = Absent
    /\ IF ok
       THEN /\ Directories(DOMAIN ns)
            /\ Edited(d, {<<n, NoDir>>}, {})
            /\ \A e \in DOMAIN ns \ {d} : Same(e)
       ELSE Nothing

MakeDirectory(n, c, ok) ==
    /\ Answered("mkdir", <<n, c>>, {Root}, ok)
    /\ c \notin DOMAIN ns
    /\ ns[Root][n] = Absent
    /\ \/ /\ Directories(DOMAIN ns \cup {c})
          /\ Edited(Root, {<<n, c>>}, {})
          /\ ns'[c] = Empty /\ unseen'[c] = {}
          /\ \A e \in DOMAIN ns \ {Root} : Same(e)
       \/ ~ok /\ Nothing

\* A directory that is removed shows no names.
Remove(d, n, ok) ==
    /\ Answered("remove", <<d, n>>, {d}, ok)
    /\ ns[d][n] # Absent
    /\ LET c == ns[d][n] IN
         /\ c # NoDir => ns[c] = Empty
         /\ \/ /\ Directories(DOMAIN ns \ {c})
               /\ Edited(d, {}, {n})
               /\ \A e \in DOMAIN ns \ {c, d} : Same(e)
            \/ /\ ~ok
               /\ Directories(DOMAIN ns)
               /\ \E taken \in SUBSET {n} : Edited(d, {}, taken)
               /\ \A e \in DOMAIN ns \ {d} : Same(e)

Rename(d, n, e, m, ok) ==
    /\ Answered("rename", <<d, n, e, m>>, {d, e}, ok)
    /\ ns[d][n] # Absent
    /\ ns[e][m] = Absent \/ (d = e /\ m = n)
    /\ \/ \E taken \in SUBSET {n} :
            /\ ok => taken = {n}
            /\ Directories(DOMAIN ns)
            /\ IF d = e
               THEN Edited(d, {<<m, ns[d][n]>>}, taken)
               ELSE Edited(d, {}, taken) /\ Edited(e, {<<m, ns[d][n]>>}, {})
            /\ \A f \in DOMAIN ns \ {d, e} : Same(f)
       \/ ~ok /\ Nothing

Next ==
    \E ok \in BOOLEAN, d \in DOMAIN ns, n \in Name :
      \/ CreateFile(d, n, ok)
      \/ Remove(d, n, ok)
      \/ \E c \in DirCluster : MakeDirectory(n, c, ok)
      \/ \E e \in DOMAIN ns, m \in Name : Rename(d, n, e, m, ok)

Spec == Init /\ [][Next]_<<ns, unseen, trouble, answer>>
==============================================================================
