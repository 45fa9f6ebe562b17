------------------------------ MODULE ApBridge ------------------------------
(***************************************************************************)
(* The routing table of apbridge.c: node_ap_map[ap_cport] names the node   *)
(* interface and the cport of the node that an AP cport is connected to.   *)
(* The operators are the static functions of apbridge.c on a table m.      *)
(***************************************************************************)
EXTENDS Lookup

NULL == 0

SVC_INF_ID == 0

(* A zeroed entry.  Its id and cport are those of cport 0 of the SVC.      *)
NoConnection == [node_intf |-> NULL, node_cport |-> 0, node_id |-> SVC_INF_ID]

(* node_ap_add refuses a cport outside the table (-E2BIG) and one that is  *)
(* already connected (-EALREADY).                                          *)
node_ap_may_add(m, ap_cport) ==
  ap_cport \in DOMAIN m /\ m[ap_cport].node_intf = NULL

(* A faulty table that counts AP cports from 1.                            *)
node_ap_add_from_one(m, ap_cport, cport, intf, id) ==
  [c \in DOMAIN m |-> IF c = ap_cport - 1
                      THEN [node_intf |-> intf, node_cport |-> cport, node_id |-> id]
                      ELSE m[c]]

node_ap_add(m, ap_cport, cport, intf, id) ==
  [m EXCEPT ![ap_cport] =
     [node_intf |-> intf, node_cport |-> cport, node_id |-> id]]

(* A faulty removal that clears every connection of the node.              *)
node_ap_remove_node(m, ap_cport) ==
  [c \in DOMAIN m |-> IF m[c].node_id = m[ap_cport].node_id THEN NoConnection ELSE m[c]]

(* A faulty removal, of the entry behind the connection's.                 *)
node_ap_remove_next(m, ap_cport) ==
  [c \in DOMAIN m |-> IF c = ap_cport + 1 THEN NoConnection ELSE m[c]]

node_ap_remove(m, ap_cport) == [m EXCEPT ![ap_cport] = NoConnection]

(* A faulty lookup that ignores the node.                                  *)
cport_to_ap_cport(m, id, cport) ==
  FirstIndex({i \in DOMAIN m : m[i].node_cport = cport /\ m[i].node_intf # NULL})

node_to_ap_cport(m, id, cport) ==
  FirstIndex({i \in DOMAIN m : m[i].node_id = id /\ m[i].node_cport = cport})

=============================================================================
