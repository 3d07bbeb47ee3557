SPECIFICATION Spec
CONSTANTS
  Words = {"xml", "CDATA", "version", "encoding", "standalone", "DTMFServer", "other", "loglevel", "logsize", "lognum", "remotelogserverip", "local_ip", "local_port", "RTPPROXY_ip", "RTPPROXY_port"}
  Absent = Absent
  ConfigPath = "conf"
  Starts <- StartsValue
INVARIANTS RunningIsConfigured ProperStartRuns
