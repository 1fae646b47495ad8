------------------------------ MODULE MCEdges ------------------------------
(***************************************************************************)
(* Small components that do not interact, checked side by side: sys picks  *)
(* the one that runs, the others stay in their first state.                *)
(***************************************************************************)
EXTENDS StreamProxy, HttpForward, Crawl, Quiche, WebRTC, Discovery, Mux

VARIABLE sys    \* fixed

Systems == {"stream", "forward", "crawl", "quiche", "rtc", "discovery", "mux"}

MCHop == <<"Connection", "Te">>

\* An initial state of the systems that do not run.
Rests ==
  /\ sys # "stream" => mode = "copy" /\ faults = {}
  /\ sys # "forward" => known /\ reqHdr = NoHdr
  /\ sys # "quiche" => side = "server"
  /\ sys # "rtc" => cands = 0
  /\ sys # "discovery" => made /\ fams = [i \in Ifs |-> {6}]
  /\ sys # "mux" => ~httpMux

EdgesInit == /\ sys \in Systems
             /\ InitStream /\ InitForward /\ InitCrawl /\ InitQuiche /\ InitRTC /\ InitDisc /\ InitMux
             /\ Rests

EdgesNext ==
  /\ \/ /\ sys = "stream" /\ NextStream
        /\ UNCHANGED <<fwdAll, crawlState, quicAll, rtcAll, discAll, muxAll>>
     \/ /\ sys = "forward" /\ NextForward
        /\ UNCHANGED <<spAll, crawlState, quicAll, rtcAll, discAll, muxAll>>
     \/ /\ sys = "crawl" /\ NextCrawl
        /\ UNCHANGED <<spAll, fwdAll, quicAll, rtcAll, discAll, muxAll>>
     \/ /\ sys = "quiche" /\ NextQuiche
        /\ UNCHANGED <<spAll, fwdAll, crawlState, rtcAll, discAll, muxAll>>
     \/ /\ sys = "rtc" /\ NextRTC
        /\ UNCHANGED <<spAll, fwdAll, crawlState, quicAll, discAll, muxAll>>
     \/ /\ sys = "discovery" /\ NextDisc
        /\ UNCHANGED <<spAll, fwdAll, crawlState, quicAll, rtcAll, muxAll>>
     \/ /\ sys = "mux" /\ NextMux
        /\ UNCHANGED <<spAll, fwdAll, crawlState, quicAll, rtcAll, discAll>>
  /\ UNCHANGED sys

edgeVars == <<sys, spAll, fwdAll, crawlState, quicAll, rtcAll, discAll, muxAll>>

EdgesSpec == EdgesInit /\ [][EdgesNext]_edgeVars

\* Goroutines that can run do run; an HTTP request of crawl ends, since it has a
\* timeout, and so does the gathering of candidates.
FairSpec ==
  /\ EdgesSpec
  /\ \A s \in Copiers : WF_spVars(sys = "stream" /\ StreamCopy(s) /\ UNCHANGED <<kindVars, mode>>)
  /\ WF_spVars(sys = "stream" /\ (ProxyTo \/ CopyBuffered))
  /\ WF_crawlState(sys = "crawl" /\ Crawling)
  /\ \A l \in {"sender", "receiver"} : WF_cliVars(side = "client" /\ Loop(l))
  /\ WF_rtcVars(sys = "rtc" /\ Gathering) /\ WF_rtcVars(sys = "rtc" /\ Handling)
  /\ \A r \in Readers : WF_discVars(sys = "discovery" /\ Process(r))

\* The types of every component's state.
EdgesTypeOK ==
  /\ StreamTypeOK /\ ForwardTypeOK /\ CrawlTypeOK /\ QuicheTypeOK /\ RTCTypeOK /\ DiscTypeOK
  /\ MuxTypeOK
=============================================================================
