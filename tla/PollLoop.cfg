SPECIFICATION FairSpec
CONSTANTS
  Watches = {p, w1, w2}
  Pipe = p
  Fds = {pf, f1}
  PipeFd = pf
  NoFd = nofd
  Timers = {t1}
  MaxInterval = 2
  MaxWait = 2
INVARIANT TypeOK
INVARIANT NoOversleep
INVARIANT ExpiredAreDue
PROPERTY HandlersAreSound
PROPERTY ImplementsRound
PROPERTY EventIsHandled
PROPERTY TimerIsHandled
