---------------------------- MODULE MCRequestLoop ----------------------------
(* The requests the loop tells apart, and a strategy that runs before            *)
(* PrepareStg.                                                                   *)
EXTENDS RequestLoop

\* With two workers: an action, no action after a body of two full buffers, and no URL.
FewRequests ==
  {[url |-> "/testaction", body |-> NoBody], [url |-> "/other", body |-> 4],
   [url |-> "", body |-> 1]}

BeforePrepare == <<"Session", "PrepareStg">>
=============================================================================
