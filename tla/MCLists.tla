------------------------------ MODULE MCLists ------------------------------
(* Entries with a struct list_head and a struct hlist_node, as semd_t has: *)
(* a program over both kinds of lists, one operation at a time.            *)
EXTENDS ListMachine

CONSTANT Bucket
ASSUME BucketAssumption ==
  IsFiniteSet(Bucket) /\ Bucket \cap Entry = {} /\ NULL \notin Bucket

VARIABLES hm, buckets, fakes
hvars == <<hm, buckets, fakes>>
Hash == INSTANCE HListMachine WITH m <- hm, lists <- buckets

BothInit == Init /\ Hash!Init
BothNext == \/ Next /\ UNCHANGED hvars
            \/ Hash!Next /\ UNCHANGED vars
BothSpec == BothInit /\ [][BothNext]_<<vars, hvars>>

(* The hash lists and their pprev, as stated in HListMachine: hlist_del    *)
(* unlinks a node without knowing its bucket.                              *)
BucketsAgree == Hash!BucketsAgree

(* What hlist_unhashed, hlist_fake and hlist_is_singular_node tell, as     *)
(* stated in HListMachine.                                                 *)
NodeTestsAgree == Hash!NodeTestsAgree

(* What a comment says of hlist_del, as stated in HListMachine.            *)
DeletedStaysHashed == Hash!DeletedStaysHashed
=============================================================================
