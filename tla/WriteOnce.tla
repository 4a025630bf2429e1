------------------------------ MODULE WriteOnce ------------------------------
(***************************************************************************)
(* What the archiver promises about one archive name.  The name is given a *)
(* content at most once.  While the publisher that gave it is still at     *)
(* work (owner) the content is provisional: after an error that publisher, *)
(* and nobody else, may take it back.  Once settled it never changes or    *)
(* disappears.  A caller that is told its archive is published is told the *)
(* content under the name, unless a content has been taken back.           *)
(***************************************************************************)
CONSTANTS Publishers,   \* processes that publish under the name
          Contents,     \* the contents an archive may have
          Nobody,       \* not a publisher
          NoData        \* not a content

VARIABLES published,    \* the content under the name, or NoData
          owner,        \* who may still take it back, or Nobody
          doubted,      \* has a publisher met an error after giving its content?
          receipt       \* what each publisher was last told it had published

vars == <<published, owner, doubted, receipt>>

Init == /\ published = NoData
        /\ owner = Nobody
        /\ doubted = FALSE
        /\ receipt = [p \in Publishers |-> NoData]

Publish(c, p) == /\ published = NoData
                 /\ published' = c
                 /\ owner' = p
                 /\ UNCHANGED <<doubted, receipt>>

Settle == /\ owner' = Nobody
          /\ UNCHANGED <<published, doubted, receipt>>

Doubt == /\ owner # Nobody
         /\ doubted' = TRUE
         /\ UNCHANGED <<published, owner, receipt>>

Withdraw == /\ owner # Nobody
            /\ doubted
            /\ published' = NoData
            /\ owner' = Nobody
            /\ UNCHANGED <<doubted, receipt>>

Confirm(p) == /\ published # NoData \/ doubted
              /\ receipt' = [receipt EXCEPT ![p] = published]
              /\ UNCHANGED <<published, owner, doubted>>

Next == \/ \E c \in Contents, p \in Publishers \cup {Nobody} : Publish(c, p)
        \/ Settle
        \/ Doubt
        \/ Withdraw
        \/ \E p \in Publishers : Confirm(p)

Spec == Init /\ [][Next]_vars
=============================================================================
