------------------------------ MODULE Releases ------------------------------
(***************************************************************************)
(* The names of the shared libraries: what a release builds and packs      *)
(* (release.yml, gosnakechat/build.py, main.py) and what the package asks  *)
(* for on the platform that it runs on (utils/platform.py).                *)
(***************************************************************************)
EXTENDS Integers

\* The builds of a release by the GOOS and GOARCH they export; the first of the
\* Linux job exports none, on a machine of the kind x86_64.
Unset == ""
Builds ==
    ({"android"} \X {"arm64", "arm", "amd64", "386"})
    \cup ({"windows"} \X {"amd64", "arm64", "386"})
    \cup ({"linux"} \X {"386", "arm64", "riscv64", "s390x"})
    \cup ({"darwin"} \X {"amd64", "arm64"})
    \cup {<<Unset, Unset>>}

\* The builds that a wheel is made of.
Packed == {b \in Builds : b[1] # "android" /\ b[2] # "riscv64"}

\* Where the package runs: platform.system() and platform.machine() in lower case,
\* and whether uname says that it is Android.
Platform(system, machine, android) ==
    [system |-> system, machine |-> machine, android |-> android]
Platforms ==
    {Platform("linux", m, a) :
        m \in {"x86_64", "aarch64", "armv7l", "i686", "riscv64", "s390x"}, a \in BOOLEAN}
    \cup {Platform("windows", m, FALSE) : m \in {"amd64", "arm64", "x86"}}
    \cup {Platform("darwin", m, FALSE) : m \in {"x86_64", "arm64"}}

\* What Go calls the machine.
GoArch(p) ==
    CASE p.machine \in {"x86_64", "amd64"} -> "amd64"
      [] p.machine \in {"aarch64", "arm64"} -> "arm64"
      [] p.machine \in {"i686", "x86"} -> "386"
      [] p.machine = "armv7l" -> "arm"
      [] OTHER -> p.machine
GoOs(p) == IF p.android THEN "android" ELSE p.system

arch_normalizer(arch) ==
    CASE arch = "aarch64" -> "arm64" [] arch = "x86_64" -> "amd64" [] OTHER -> arch

Extension(os) ==
    CASE os = "windows" -> "dll" [] os = "darwin" -> "dylib" [] OTHER -> "so"

\* generated_name of build.py, with what the environment or the machine gives it.
BuiltName(build) ==
    LET os == IF build[1] = Unset THEN "linux" ELSE build[1]
        arch == arch_normalizer(IF build[2] = Unset THEN "x86_64" ELSE build[2])
    IN  <<os, arch, Extension(os)>>

\* Mutant: Android is not told from Linux.
AskedNamePlain(p) == <<p.system, arch_normalizer(p.machine), Extension(p.system)>>

\* generated_name of utils/platform.py, without arguments.
AskedName(p) ==
    <<IF p.system = "linux" /\ p.android THEN "android" ELSE p.system,
      arch_normalizer(p.machine), Extension(p.system)>>

Assets == {BuiltName(b) : b \in Builds}

\* The tag that main.py gives a wheel, by OS.auto and ARCH.auto.
WheelTag(build) ==
    LET os == BuiltName(build)[1]
        arch == BuiltName(build)[2]
    IN  CASE os = "windows" -> IF arch = "386" THEN <<"win", "32">> ELSE <<"win", arch>>
          [] os = "darwin" -> <<"macosx_12_0", IF arch = "amd64" THEN "x86_64" ELSE arch>>
          [] os = "linux" ->
                <<"manylinux2014",
                  CASE arch = "arm64" -> "aarch64" [] arch = "amd64" -> "x86_64"
                    [] arch = "386" -> "i686" [] OTHER -> arch>>

\* The tag of the wheels that pip takes there, but for Android, where it takes none.
PipTag(p) ==
    CASE p.system = "windows" -> IF p.machine = "x86" THEN <<"win", "32">> ELSE <<"win", p.machine>>
      [] p.system = "darwin" -> <<"macosx_12_0", p.machine>>
      [] p.system = "linux" -> <<"manylinux2014", p.machine>>
-----------------------------------------------------------------------------
\* Each platform that a release builds for asks for the library built for it, and
\* that is the one in the wheel that pip takes there; except where Go and the
\* machine call the processor by different names: no release has what is asked for.
PlatformServed(p) ==
    \A b \in Builds :
        BuiltName(b)[1] = GoOs(p) /\ BuiltName(b)[2] = GoArch(p) =>
            IF GoArch(p) \in {"386", "arm"}
            THEN AskedName(p) \notin Assets
            ELSE /\ AskedName(p) = BuiltName(b)
                 /\ \A w \in Packed :
                       ~p.android /\ WheelTag(w) = PipTag(p) => BuiltName(w) = AskedName(p)
=============================================================================
