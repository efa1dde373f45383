---------------------------- MODULE CritestNetwork ----------------------------
(***************************************************************************)
(* The specs of src/pkg/validate/networking.go, streaming.go and their     *)
(* Linux parts: DNS, host names, port mappings, and the streams of exec,   *)
(* attach and port-forward.                                                *)
(***************************************************************************)
EXTENDS CritestSteps

createPodSandWithHostname(p) == RunPodSandbox(p, {"hostname"})

createPodSandWithDNSConfig(p) == RunPodSandbox(p, {"DNS"})

createPodSandboxWithPortMapping(p, o) == RunPodSandbox(p, o)

checkHostname(c) == Exec(c, {"hostname"})

checkDNSConfig(c) == Exec(c, {"DNS"})

createWebServerContainer(c, p) ==
  CreateContainerWithError("Create", c, p, "nginx", {"main page"})

createHostNetWebServerContainer(c, p) ==
  CreateContainerWithError("Create", c, p, "host network nginx", {"main page"})

(* Asks again until the page comes, from the pod or by a port of the host. *)
checkMainPage(c, o) == Eventually(c, "RUNNING") \o Shows(c, {"main page"} \cup o)

webServerHostPortForPortMapping       == "host port 12000"
webServerHostPortForPortForward       == "host port 12001"
webServerHostPortForHostNetPortForward == "host port 12002"

(* Faulty variant: the port of another spec. *)
webServerHostNetContainerPortReused == webServerHostPortForPortMapping

webServerHostNetContainerPort == "host port 12003"

Networking ==
  LET Network == Context("networking", <<>>, <<CleanupPodSandbox("podID")>>)
      Web(o)  == createPodSandboxWithPortMapping("podID", o)
                   \o createWebServerContainer("c", "podID") \o startContainer("c")
      Port    == {webServerHostPortForPortMapping}
  IN [ DNSConfig |->
         It(Network, createPodSandWithDNSConfig("podID")
              \o CreateDefaultContainer("c", "podID") \o startContainer("c")
              \o checkDNSConfig("c"), {"DNS"}),
       setHostname |->
         It(Network, createPodSandWithHostname("podID")
              \o CreateDefaultContainer("c", "podID") \o startContainer("c")
              \o checkHostname("c"), {"hostname"}),
       containerPort |->
         It(Network, Web({"container port"}) \o checkMainPage("c", {"container port"}),
            {"container port", "main page"}),
       hostPort |->
         It(Network, Web(Port) \o checkMainPage("c", Port), Port) ]

-------------------------------------------------------------------------------
(* Streams.  createExec and the like ask for a URL; checkExec and the like *)
(* connect to it.                                                          *)
createExec(c) == Expect(c, "RUNNING")

checkExec(c, o) == Honors({"exec stream"}) \o Exec(c, o)

createDefaultAttach(c) == Expect(c, "RUNNING")

(* A goroutine writes to the pipe and checks the echo; the spec streams    *)
(* until that closes the pipe.                                             *)
checkAttach(c) == Expect(c, "RUNNING") \o Shows(c, {"stdin"})

createDefaultPortForward(p) == Expect(p, "READY")

(* The goroutine of the forwarder listens until the deferred close.        *)
checkPortForward(c, port) ==
  Do("Listen", "", port, {}) \o Defer(Do("Unlisten", "", port, {}))
    \o Honors({"port forward"}) \o checkMainPage(c, {})

Streaming ==
  LET Stream == Context("streaming", <<>>, <<CleanupPodSandbox("podID")>>)
      Pod    == CreatePodSandboxForContainer("podID")
  IN [ execNoTty |->
         It(Stream, Pod \o CreateDefaultContainer("c", "podID") \o startContainer("c")
              \o createExec("c") \o checkExec("c", {}), {"exec stream"}),
       execTty |->
         It(Stream, Pod \o CreateDefaultContainer("c", "podID") \o startContainer("c")
              \o createExec("c") \o checkExec("c", {}), {"exec stream"}),
       attach |->
         It(Stream, Pod \o createShellContainer("c", "podID") \o startContainer("c")
              \o createDefaultAttach("c") \o checkAttach("c"), {"stdin"}),
       portForward |->
         It(Stream, createPodSandboxWithPortMapping("podID", {"container port"})
              \o createWebServerContainer("c", "podID") \o startContainer("c")
              \o checkMainPage("c", {"container port"})
              \o createDefaultPortForward("podID")
              \o checkPortForward("c", webServerHostPortForPortForward),
            {"port forward"}) ]

(* streaming_linux.go: the server itself listens on a port of the host.    *)
StreamingLinux ==
  LET Port == webServerHostNetContainerPort
  IN [ portForwardHostNet |->
         It(Context("streaming on the host", <<>>, <<CleanupPodSandbox("podID")>>),
            createPodSandboxWithPortMapping("podID", {"host network", Port})
              \o createHostNetWebServerContainer("c", "podID") \o startContainer("c")
              \o checkMainPage("c", {Port}) \o createDefaultPortForward("podID")
              \o checkPortForward("c", webServerHostPortForHostNetPortForward),
            {"port forward"}) ]
===============================================================================
