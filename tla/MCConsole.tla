----------------------------- MODULE MCConsole ------------------------------
(* Small instances of Console: what the clients and the guest do in each.  *)
EXTENDS Console

Exec(c) == [op |-> "exec", cmds |-> <<c>>]
Rest(c) == [op |-> "rest", cmds |-> <<c>>]
Inner(op, cs) == [op |-> op, cmds |-> cs]

(* a fails with code 17; b prints nothing; c fails and ends no line; hang  *)
(* prints and never ends.                                                  *)
MCPrograms == [a |-> [out |-> <<"aa", "cr", "nl">>, code |-> <<"1", "7">>, ends |-> TRUE],
               b |-> [out |-> <<>>, code |-> <<"0">>, ends |-> TRUE],
               c |-> [out |-> <<"cc">>, code |-> <<"1">>, ends |-> TRUE],
               hang |-> [out |-> <<"hh">>, code |-> <<"0">>, ends |-> FALSE]]

Quiet == [cold |-> TRUE, pooled |-> FALSE, maxOutput |-> 60, typed |-> <<>>, noise |-> 0,
          printk |-> 0, stops |-> FALSE, streams |-> {}, slow |-> {}, calls |-> <<>>]

(* two: calls one after the other or at once; slow: the first gives up     *)
(* while its command runs; noisy: a service and the kernel print; code,    *)
(* write, read: the callers of exec_inner; typing: a user at the console;  *)
(* stopping: a stream and a stop; pooled: a VM from the pool, with a call  *)
(* or with a stream; full: the output limit; resumed: a VM stopped at the  *)
(* boot marker.                                                            *)
MCConfigs ==
  [two |-> [Quiet EXCEPT !.calls = [c1 |-> Exec("c"), c2 |-> Rest("b")]],
   slow |-> [Quiet EXCEPT !.calls = [c1 |-> Rest("b"), c2 |-> Exec("b")], !.slow = {"c1"}],
   noisy |-> [Quiet EXCEPT !.calls = [c1 |-> Exec("a")], !.noise = 1, !.printk = 1],
   code |-> [Quiet EXCEPT !.calls = [c1 |-> Inner("run_code", <<"b", "a">>)], !.stops = TRUE],
   write |-> [Quiet EXCEPT !.calls = [c1 |-> Inner("write_file", <<"a">>)]],
   read |-> [Quiet EXCEPT !.calls = [c1 |-> Inner("read_file", <<"hang">>)], !.slow = {"c1"}],
   typing |-> [Quiet EXCEPT !.calls = [c1 |-> Exec("b")], !.slow = {"c1"},
                            !.typed = << <<"nl">>, <<"a">> >>],
   stopping |-> [Quiet EXCEPT !.calls = [c1 |-> Rest("b")], !.streams = {"s1"},
                              !.stops = TRUE],
   pooled |-> [Quiet EXCEPT !.cold = FALSE, !.pooled = TRUE, !.printk = 1, !.maxOutput = 18,
                            !.typed = << <<"c", "nl">> >>, !.calls = [c1 |-> Exec("b")]],
   pooledlog |-> [Quiet EXCEPT !.cold = FALSE, !.pooled = TRUE, !.printk = 1, !.stops = TRUE,
                               !.streams = {"s1"}],
   full |-> [Quiet EXCEPT !.maxOutput = 9, !.calls = [c1 |-> Exec("a")], !.streams = {"s1"}],
   resumed |-> [Quiet EXCEPT !.cold = FALSE, !.printk = 1, !.calls = [c1 |-> Rest("a")]]]

MCCallers == {"c1", "c2"}
MCStreams == {"s1"}
MCDigits == {"0", "1", "2", "7"}
=============================================================================
