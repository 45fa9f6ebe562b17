----------------------------- MODULE NodeCache ------------------------------
(***************************************************************************)
(* The node cache of node.c: a static array of node_item, of which the     *)
(* first node_cache_pos entries are in use.  The operators are the static  *)
(* functions of node.c; each takes the array c and the count n.            *)
(* fail_count is written by node_cache_add and read by nobody: left out.   *)
(***************************************************************************)
EXTENDS Lookup

node_cache_find_by_addr(c, n, addr) ==
  FirstIndex({i \in 0..(n - 1) : c[i].addr = addr})

node_cache_find_by_sock(c, n, sock) ==
  FirstIndex({i \in 0..(n - 1) : c[i].sock = sock})

node_cache_find_by_id(c, n, id) ==
  FirstIndex({i \in 0..(n - 1) : c[i].id = id})

(* Removing entry k: the last entry in use is copied over it (to itself    *)
(* when k is the last) and the count drops by one.  The slot that is freed *)
(* keeps its bytes, which is what a stale index reads.                     *)
node_cache_remove_at(c, n, k) == [c EXCEPT ![k] = c[n - 1]]

=============================================================================
