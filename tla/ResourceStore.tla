--------------------------- MODULE ResourceStore ---------------------------
(***************************************************************************)
(* What the Storage trait (storage/mod.rs) promises its callers, whichever   *)
(* backend is behind it: put, delete and get take effect at one instant, a   *)
(* get returns the body and the content type of one and the same put, and a  *)
(* resource that is not there is NotFound.                                   *)
(***************************************************************************)
CONSTANTS Clients, Keys, Entries, NoEntry

VARIABLES
    data,     \* the resource stored under each key, or NoEntry
    answer    \* what each caller's last operation returned

NoAnswer == [res |-> "none", entry |-> NoEntry]
Ok(e) == [res |-> "ok", entry |-> e]
NotFound == [res |-> "not_found", entry |-> NoEntry]
Answers == [res : {"none", "ok", "not_found"}, entry : Entries \cup {NoEntry}]

Stored(d, k) == IF d[k] = NoEntry THEN NotFound ELSE Ok(d[k])

Init ==
    /\ data = [k \in Keys |-> NoEntry]
    /\ answer = [c \in Clients |-> NoAnswer]

\* put is create-or-replace and returns the metadata of what it stored.
Put(c, k, e) ==
    /\ data' = [data EXCEPT ![k] = e]
    /\ answer' = [answer EXCEPT ![c] = Ok(e)]

Delete(c, k) ==
    /\ data' = [data EXCEPT ![k] = NoEntry]
    /\ answer' = [answer EXCEPT
          ![c] = IF data[k] = NoEntry THEN NotFound ELSE Ok(NoEntry)]

\* get, head and exists
Get(c, k) ==
    /\ answer' = [answer EXCEPT ![c] = Stored(data, k)]
    /\ UNCHANGED data

Next == \E c \in Clients, k \in Keys :
    \/ \E e \in Entries : Put(c, k, e)
    \/ Delete(c, k)
    \/ Get(c, k)

Spec == Init /\ [][Next]_<<data, answer>>
=============================================================================
