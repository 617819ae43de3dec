----------------------------- MODULE MCRegistry -----------------------------
(***************************************************************************)
(* Registry on two keys, one owner and a pool of three addresses.          *)
(***************************************************************************)
EXTENDS Registry

CONSTANTS k1, k2

Legacy(key, ips) == [key |-> key, tenant |-> NoTenant, name |-> Plain,
                     ips |-> ips, active |-> TRUE, token |-> 0]

\* A file that is missing, one written before addresses and tokens were
\* assigned, and one with a record that carries two addresses.
Disks == {<<>>,
          <<Legacy(k1, <<>>), Legacy(k2, <<>>)>>,
          <<Legacy(k1, <<3, 2>>)>>}

\* No address, a reserved one, and two of the pool.
Requested == {None, 1, 2, 3}
=============================================================================
