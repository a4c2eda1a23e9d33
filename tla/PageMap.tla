------------------------------- MODULE PageMap -------------------------------
(***************************************************************************)
(* What a page table promises: each one is a partial function from virtual *)
(* pages to entries, changed one page at a time and by nobody else.        *)
(***************************************************************************)
CONSTANTS Table, Vpn, Flags, Unmapped

VARIABLE pages   \* of each table: the entry of each page, or Unmapped

Nothing == [vpn \in Vpn |-> Unmapped]

Init == pages = [t \in Table |-> Nothing]

Map(t, vpn) ==
  /\ pages[t][vpn] = Unmapped
  /\ pages'[t][vpn].flags \in Flags
  /\ \A s \in Table, v \in Vpn :
       pages[s][v] # Unmapped => pages[s][v].ppn # pages'[t][vpn].ppn
  /\ pages' = [pages EXCEPT ![t][vpn] = pages'[t][vpn]]

Unmap(t, vpn) ==
  /\ pages[t][vpn] # Unmapped
  /\ pages' = [pages EXCEPT ![t][vpn] = Unmapped]

Drop(t) == pages' = [pages EXCEPT ![t] = Nothing]

Next ==
  \E t \in Table :
    \/ \E vpn \in Vpn : Map(t, vpn) \/ Unmap(t, vpn)
    \/ Drop(t)

Spec == Init /\ [][Next]_pages
=============================================================================
